---- MODULE Spec2Model ----
(***************************************************************************)
(* Cross-frame coordinate registry and spatial event router of Vieb's main *)
(* process (app/index.js): the frame registry `frameInfo`, the global link *)
(* list `allLinks`, and the ipcMain handlers that read and write them.     *)
(*                                                                         *)
(* A JavaScript object is a function from field names to values; a field   *)
(* that was never assigned is not in the DOMAIN.  A frame id, the string   *)
(* `${routingId}-${processId}`, is the pair <<routingId, processId>>: the  *)
(* template is injective on pairs of non-negative integers.                *)
(***************************************************************************)
EXTENDS Integers, Sequences, FiniteSets, TLC

(***************************************************************************)
(* Bounds of the model                                                     *)
(***************************************************************************)
\* messages other than frame-details handled in one behaviour
MaxEvents == 1
\* links carried by one follow-response
MaxLinks == 1
\* frame-details messages of a logged behaviour of the nested page
MaxReports == 4
\* follow-mode messages of a logged follow-mode behaviour
MaxSessionEvents == 4

VARIABLES
    frameInfo,  \* the registry: frame id -> record (line 1710)
    allLinks,   \* the global link list (line 1709)
    sent,       \* what the last handler sent, in order
    threw,      \* the last handler ended with an uncaught exception
    hung,       \* a handler is in a loop that never ends
    handled,    \* the last message handled, and what its hit-test returned
    nEvents,    \* other messages handled so far
    gone,       \* the sub-frames that were destroyed
    history     \* the messages handled so far, where a behaviour logs them
vars == <<frameInfo, allLinks, sent, threw, hung, handled, nEvents, gone,
          history>>

(***************************************************************************)
(* The hosting runtime: top-level views and their live frame trees         *)
(***************************************************************************)
\* webContents ids of the top-level views (webviews)
Views == {2, 3}
\* an id that webContents.fromId does not resolve
BadViews == {9}
\* the frames each view's page creates, main frame first
PageFrames(v) ==
    IF v = 2 THEN << <<1, 2>>, <<2, 2>>, <<3, 2>>, <<1, 3>> >>
    ELSE << <<1, 4>> >>
\* framesInSubtree of each view's main frame: the frames that still exist
ViewFrames(v) == SelectSeq(PageFrames(v), LAMBDA f : f \notin gone)
Range(s) == {s[i] : i \in 1..Len(s)}
\* the main window's own webContents and its main frame
MainWindowId == 1
MainWindowFrame == <<1, 1>>
\* wc.mainFrame of a webContents
MainFrameOf(wc) == IF wc = MainWindowId THEN MainWindowFrame
                   ELSE ViewFrames(wc)[1]
\* webContents.getAllWebContents()
AllWebContents == {MainWindowId} \cup Views
\* mainWindow.webContents.mainFrame.framesInSubtree: the window's frame and,
\* below it, the frames of the webviews it embeds
MainWindowFrames ==
    <<MainWindowFrame>> \o ViewFrames(2) \o ViewFrames(3)
\* every frame that can send a message to the main process
Frames == UNION {Range(ViewFrames(v)) : v \in Views}

(***************************************************************************)
(* The frame-details reports the frames send.  View 2 shows page u1, which *)
(* embeds u2 at (100,50) 300x200; u2 embeds u3 at (150,20) 200x100, partly *)
(* outside its own 300x200 viewport; u3 embeds itself at (10,10) 150x60.   *)
(* View 3 shows u1 too, in a 350x600 viewport, and embeds u1 again.  A     *)
(* frame reports its sub-frames, or none while they are not laid out yet;  *)
(* the window of view 2 is 800x600, or 350x600 after a resize.             *)
(***************************************************************************)
SubReport(url, x, y, width, height) ==
    [url |-> url, x |-> x, y |-> y, width |-> width, height |-> height]
Report(url, width, height, subframes) ==
    [url |-> url, subframes |-> subframes, width |-> width,
     height |-> height, pagex |-> 0, pagey |-> 0]
\* the details a frame may send
Details(f) ==
    IF f = <<1, 2>>
    THEN { Report("u1", 800, 600, <<>>),
           Report("u1", 800, 600, <<SubReport("u2", 100, 50, 300, 200)>>),
           Report("u1", 350, 600, <<SubReport("u2", 100, 50, 300, 200)>>) }
    ELSE IF f = <<2, 2>>
    THEN { Report("u2", 300, 200, <<>>),
           Report("u2", 300, 200, <<SubReport("u3", 150, 20, 200, 100)>>) }
    ELSE IF f = <<3, 2>>
    THEN { Report("u3", 200, 100, <<>>),
           Report("u3", 200, 100, <<SubReport("u3", 10, 10, 150, 60)>>) }
    ELSE IF f = <<1, 3>>
    THEN { Report("u3", 150, 60, <<>>),
           Report("u3", 150, 60, <<SubReport("u3", 10, 10, 150, 60)>>) }
    ELSE { Report("u1", 350, 600, <<>>),
           Report("u1", 350, 600, <<SubReport("u1", 100, 50, 300, 200)>>) }

SeqsUpTo(S, n) == UNION { [1..k -> S] : k \in 0..n }


(***************************************************************************)
(* frame-details                                                           *)
(***************************************************************************)
\* MatchedRecord with the tests `overflow > 0` of lines 1733 and 1738 left
\* out: the overflow is subtracted also when it is negative
MatchedRecord_NoGuard(rec, subframe, details, frameId) ==
    [ x |-> subframe.x,
      y |-> subframe.y,
      width |-> subframe.width,
      height |-> subframe.height,
      usableWidth |-> subframe.width
                      - (subframe.x + subframe.width - details.width),
      usableHeight |-> subframe.height
                       - (subframe.y + subframe.height - details.height),
      pagex |-> details.pagex,
      pagey |-> details.pagey,
      parent |-> frameId ] @@ rec

\* MatchedRecord with the overflow measured from the size alone, the
\* position of the child left out
MatchedRecord_NoOffset(rec, subframe, details, frameId) ==
    LET overflowW == subframe.width - details.width
        overflowH == subframe.height - details.height
    IN  [ x |-> subframe.x,
          y |-> subframe.y,
          width |-> subframe.width,
          height |-> subframe.height,
          usableWidth |-> IF overflowW > 0 THEN subframe.width - overflowW
                          ELSE subframe.width,
          usableHeight |-> IF overflowH > 0 THEN subframe.height - overflowH
                           ELSE subframe.height,
          pagex |-> details.pagex,
          pagey |-> details.pagey,
          parent |-> frameId ] @@ rec

\* MatchedRecord without the assignments of lines 1731 and 1736: the
\* overflow is subtracted from the usable size the record already has
MatchedRecord_Accumulate(rec, subframe, details, frameId) ==
    LET overflowW == subframe.x + subframe.width - details.width
        overflowH == subframe.y + subframe.height - details.height
        usableW == IF "usableWidth" \in DOMAIN rec THEN rec.usableWidth
                   ELSE subframe.width
        usableH == IF "usableHeight" \in DOMAIN rec THEN rec.usableHeight
                   ELSE subframe.height
    IN  [ x |-> subframe.x,
          y |-> subframe.y,
          width |-> subframe.width,
          height |-> subframe.height,
          usableWidth |-> IF overflowW > 0 THEN usableW - overflowW
                          ELSE usableW,
          usableHeight |-> IF overflowH > 0 THEN usableH - overflowH
                           ELSE usableH,
          pagex |-> details.pagex,
          pagey |-> details.pagey,
          parent |-> frameId ] @@ rec

\* MatchedRecord assigning only the fields the record does not have yet: what
\* an earlier report wrote stays
MatchedRecord_KeepFirst(rec, subframe, details, frameId) ==
    LET overflowW == subframe.x + subframe.width - details.width
        overflowH == subframe.y + subframe.height - details.height
    IN  rec @@ [ x |-> subframe.x,
                 y |-> subframe.y,
                 width |-> subframe.width,
                 height |-> subframe.height,
                 usableWidth |-> IF overflowW > 0
                                 THEN subframe.width - overflowW
                                 ELSE subframe.width,
                 usableHeight |-> IF overflowH > 0
                                  THEN subframe.height - overflowH
                                  ELSE subframe.height,
                 pagex |-> details.pagex,
                 pagey |-> details.pagey,
                 parent |-> frameId ]

\* lines 1727-1743: the assignments to one matched record
MatchedRecord(rec, subframe, details, frameId) ==
    LET overflowW == subframe.x + subframe.width - details.width
        overflowH == subframe.y + subframe.height - details.height
    IN  [ x |-> subframe.x,
          y |-> subframe.y,
          width |-> subframe.width,
          height |-> subframe.height,
          usableWidth |-> IF overflowW > 0 THEN subframe.width - overflowW
                          ELSE subframe.width,
          usableHeight |-> IF overflowH > 0 THEN subframe.height - overflowH
                           ELSE subframe.height,
          pagex |-> details.pagex,
          pagey |-> details.pagey,
          parent |-> frameId ] @@ rec

\* ApplySubframe without the comparison of urls of line 1726: every record
\* but the reporter's is taken for a child
ApplySubframe_AnyUrl(fi, subframe, details, frameId) ==
    [ id \in DOMAIN fi |->
        IF id # frameId
        THEN MatchedRecord(fi[id], subframe, details, frameId)
        ELSE fi[id] ]

\* ApplySubframe without the test `id !== frameId` of line 1726: the
\* reporter's own record is taken for a child when its url matches
ApplySubframe_SelfToo(fi, subframe, details, frameId) ==
    [ id \in DOMAIN fi |->
        IF fi[id].url = subframe.url
        THEN MatchedRecord(fi[id], subframe, details, frameId)
        ELSE fi[id] ]

\* lines 1725-1745: one sub-report applied to every key of the registry
ApplySubframe(fi, subframe, details, frameId) ==
    [ id \in DOMAIN fi |->
        IF fi[id].url = subframe.url /\ id # frameId
        THEN MatchedRecord(fi[id], subframe, details, frameId)
        ELSE fi[id] ]

\* line 1724: details.subframes.forEach, in order
RECURSIVE ApplySubframes(_, _, _, _, _)
ApplySubframes(fi, subframes, i, details, frameId) ==
    IF i > Len(subframes) THEN fi
    ELSE ApplySubframes(ApplySubframe(fi, subframes[i], details, frameId),
                        subframes, i + 1, details, frameId)

\* UpsertSelf that starts a new record when the reported url is not the url
\* of the record: geometry and parent of the old document are dropped
UpsertSelf_FreshOnNavigation(fi, frameId, url) ==
    [ id \in DOMAIN fi \cup {frameId} |->
        IF id = frameId
        THEN IF id \in DOMAIN fi /\ fi[id].url = url
             THEN fi[id]
             ELSE [id |-> frameId, url |-> url]
        ELSE fi[id] ]

\* lines 1719-1723: create the reporter's record if missing, set id and url
UpsertSelf(fi, frameId, url) ==
    [ id \in DOMAIN fi \cup {frameId} |->
        IF id = frameId
        THEN [id |-> frameId, url |-> url]
             @@ (IF id \in DOMAIN fi THEN fi[id] ELSE [id |-> frameId])
        ELSE fi[id] ]

\* the registry after the handler of one frame-details message
Record(fi, frameId, details) ==
    ApplySubframes(UpsertSelf(fi, frameId, details.url),
                   details.subframes, 1, details, frameId)

(***************************************************************************)
(* JavaScript values                                                       *)
(***************************************************************************)
\* obj.k as an optional value: {} for undefined or null, {v} for a value v
Field(obj, k) == IF k \in DOMAIN obj THEN {obj[k]} ELSE {}
\* the value of an optional that is known to be there
The(opt) == CHOOSE v \in opt : TRUE
\* opt || 0 for a number
OrZero(opt) == IF opt = {} THEN 0 ELSE The(opt)
\* opt || dflt for a string
OrElse(opt, dflt) == IF opt = {} \/ opt = {""} THEN dflt ELSE The(opt)
\* frameInfo[id]; the object without fields stands for undefined under `?.`
InfoOf(fi, id) == IF id \in DOMAIN fi THEN fi[id] ELSE <<>>

(***************************************************************************)
(* Messages a handler sends                                                *)
(***************************************************************************)
NoFrame == <<0, 0>>
\* frame.send(...)
ToFrame(f) == [kind |-> "frame", frame |-> f, view |-> 0]
\* wc.send(...) of a top-level view
ToView(v) == [kind |-> "wc", frame |-> NoFrame, view |-> v]
\* wc.sendInputEvent(...): the native input pipeline of a top-level view
ToInput(v) == [kind |-> "input", frame |-> NoFrame, view |-> v]
\* mainWindow.webContents.send(...)
ToMain == [kind |-> "main", frame |-> NoFrame, view |-> 0]
Msg(to, channel, args) == [to |-> to, channel |-> channel, args |-> args]
\* mainWindow.webContents.send("main-error", ex.stack)
MainError == Msg(ToMain, "main-error", <<>>)

\* the record of a handled message: its channel, the frame that sent it
\* (NoFrame for the renderer of the main window), the root content id it
\* names (0 for none), its arguments, the point that was hit-tested and the
\* frame findRelevantSubFrame returned
Handled(channel, from, id, args, point, hit) ==
    [channel |-> channel, from |-> from, id |-> id, args |-> args,
     point |-> point, hit |-> hit]

(***************************************************************************)
(* The parent-chain walk of follow-response and translateMouseEvent        *)
(***************************************************************************)
\* lines 1760-1765 and 1942-1948: the while loop.  `fuel` counts the hops
\* left before a record must repeat; when it runs out the loop never ends.
RECURSIVE WalkParents(_, _, _, _, _, _, _)
WalkParents(fi, frameId, frameX, frameY, parent, parentId, fuel) ==
    IF parent = {}
    THEN [frameX |-> frameX, frameY |-> frameY, parentId |-> parentId,
          ends |-> TRUE]
    ELSE IF fuel = 0
    THEN [frameX |-> frameX, frameY |-> frameY, parentId |-> parentId,
          ends |-> FALSE]
    ELSE LET parentInfo == InfoOf(fi, The(parent))
         IN  WalkParents(fi, frameId,
                         frameX + OrZero(Field(parentInfo, "x")),
                         frameY + OrZero(Field(parentInfo, "y")),
                         Field(parentInfo, "parent"),
                         IF Field(parentInfo, "id") = {} THEN frameId
                         ELSE parentInfo.id,
                         fuel - 1)

\* ResolveAbsolute with the walk stopped after the direct parent
ResolveAbsolute_DirectParent(fi, frameId) ==
    LET info == InfoOf(fi, frameId)
        parentInfo == IF Field(info, "parent") = {} THEN <<>>
                      ELSE InfoOf(fi, info.parent)
    IN  [frameX |-> OrZero(Field(info, "x")) + OrZero(Field(parentInfo, "x")),
         frameY |-> OrZero(Field(info, "y")) + OrZero(Field(parentInfo, "y")),
         parentId |-> IF Field(parentInfo, "id") = {} THEN frameId
                      ELSE parentInfo.id,
         ends |-> TRUE]

\* lines 1756-1765 and 1937-1948: the absolute origin of a frame
ResolveAbsolute(fi, frameId) ==
    LET info == InfoOf(fi, frameId)
    IN  WalkParents(fi, frameId,
                    OrZero(Field(info, "x")), OrZero(Field(info, "y")),
                    Field(info, "parent"), frameId,
                    Cardinality(DOMAIN fi))

(***************************************************************************)
(* follow-mode-start, follow-response                                      *)
(***************************************************************************)
SeqMap(Op(_), s) == [i \in 1..Len(s) |-> Op(s[i])]

\* lines 1690-1700
FollowModeStart(id, followTypeFilter, switchTo) ==
    /\ ~hung
    /\ nEvents' = nEvents + 1
    /\ IF id \in Views
       THEN /\ sent' = SeqMap(LAMBDA f : Msg(ToFrame(f), "follow-mode-start",
                                             <<followTypeFilter>>),
                              ViewFrames(id))
            /\ allLinks' = IF switchTo THEN <<>> ELSE allLinks
       ELSE /\ sent' = <<MainError>>
            /\ allLinks' = allLinks
    /\ threw' = FALSE
    /\ handled' = Handled("follow-mode-start", NoFrame, id,
                          <<followTypeFilter, switchTo>>, {}, {})
    /\ UNCHANGED <<frameInfo, hung>>

\* lines 1766-1780: one raw link with the frame's data attached; the
\* fields of the raw link that are not overwritten are kept (`...l`)
FrameLink(l, frameId, info, frameX, frameY) ==
    [ frameAbsX |-> frameX,
      frameAbsY |-> frameY,
      frameHeight |-> Field(info, "height"),
      frameId |-> frameId,
      frameUsableHeight |-> Field(info, "usableHeight"),
      frameUsableWidth |-> Field(info, "usableWidth"),
      frameWidth |-> Field(info, "width"),
      frameX |-> Field(info, "x"),
      frameY |-> Field(info, "y"),
      x |-> l.x + frameX,
      xInFrame |-> l.x,
      y |-> l.y + frameY,
      yInFrame |-> l.y ] @@ l

\* KeepLink that keeps a link only when both usable dimensions are there
\* and the link is inside them: a frame without a record has no link kept
KeepLink_NeedsUsable(l) ==
    /\ l.frameUsableHeight # {} /\ l.frameUsableWidth # {}
    /\ l.yInFrame < The(l.frameUsableHeight)
    /\ l.xInFrame < The(l.frameUsableWidth)

\* lines 1781-1787: the filter on the usable rectangle
KeepLink(l) ==
    IF OrZero(l.frameUsableHeight) = 0 \/ OrZero(l.frameUsableWidth) = 0
    THEN TRUE
    ELSE /\ l.yInFrame < The(l.frameUsableHeight)
         /\ l.xInFrame < The(l.frameUsableWidth)

\* lines 1766-1787
FrameLinks(fi, frameId, rawLinks, frameX, frameY) ==
    SelectSeq(SeqMap(LAMBDA l : FrameLink(l, frameId, InfoOf(fi, frameId),
                                          frameX, frameY),
                     rawLinks),
              KeepLink)

\* MergeLinks without the test `l.frameId !== frameId` of line 1791: the
\* reporter's earlier entries stay while its frame is alive
MergeLinks_KeepOwn(links, frameId, frameLinks) ==
    SelectSeq(links, LAMBDA l : l.frameId \in Range(MainWindowFrames))
        \o frameLinks

\* MergeLinks with the operands of the concat of line 1793 exchanged: the
\* new batch comes before the entries that are kept
MergeLinks_BatchFirst(links, frameId, frameLinks) ==
    frameLinks
        \o SelectSeq(links, LAMBDA l : /\ l.frameId # frameId
                                       /\ l.frameId \in Range(MainWindowFrames))

\* lines 1789-1793
MergeLinks(links, frameId, frameLinks) ==
    SelectSeq(links, LAMBDA l : /\ l.frameId # frameId
                                /\ l.frameId \in Range(MainWindowFrames))
        \o frameLinks

\* lines 1748-1798
FollowResponse(f, rawLinks) ==
    LET origin == ResolveAbsolute(frameInfo, f)
    IN  /\ ~hung
            /\ nEvents' = nEvents + 1
        /\ IF origin.ends
           THEN /\ allLinks' = MergeLinks(allLinks, f,
                                   FrameLinks(frameInfo, f, rawLinks,
                                              origin.frameX, origin.frameY))
                /\ sent' = <<Msg(ToMain, "follow-response", allLinks')>>
                /\ hung' = FALSE
           ELSE /\ hung' = TRUE
                /\ sent' = <<>>
                /\ allLinks' = allLinks
        /\ threw' = FALSE
        /\ handled' = Handled("follow-response", f, 0, <<rawLinks>>, {}, {})
        /\ UNCHANGED <<frameInfo>>

(***************************************************************************)
(* findRelevantSubFrame                                                    *)
(***************************************************************************)
\* wc.mainFrame.framesInSubtree.find(f => `${f.routingId}-${f.processId}`
\* === frameId), as an optional frame
FrameRef(v, frameId) ==
    IF frameId \in Range(ViewFrames(v)) THEN {frameId} ELSE {}

\* AbsoluteOrigin that moves the frame: the sums are written to x and y of
\* the record as well as to absX and absY
AbsoluteOrigin_IntoXY(fi, info) ==
    LET parent == InfoOf(fi, info.parent)
        px == IF info.parent \in DOMAIN fi THEN OrZero(Field(parent, "x"))
              ELSE 0
        py == IF info.parent \in DOMAIN fi THEN OrZero(Field(parent, "y"))
              ELSE 0
    IN  [x |-> info.x + px, y |-> info.y + py,
         absX |-> info.x + px, absY |-> info.y + py]

\* lines 1807-1814: absX and absY of a record that has a parent.  The key of
\* the lookup of line 1813 is the parent record itself, not an id: it names
\* no entry of the registry, so the loop body runs for the direct parent and
\* then stops.
AbsoluteOrigin(fi, info) ==
    LET parent == InfoOf(fi, info.parent)
    IN  IF info.parent \in DOMAIN fi
        THEN [absX |-> info.x + OrZero(Field(parent, "x")),
              absY |-> info.y + OrZero(Field(parent, "y"))]
        ELSE [absX |-> info.x, absY |-> info.y]

\* lines 1801-1806, 1816: the frames of the subtree that have a record with
\* a parent, in enumeration order
absoluteFrames(fi, v) ==
    SelectSeq(ViewFrames(v),
              LAMBDA f : Field(InfoOf(fi, f), "parent") # {})

\* WithAbsolute keeping only the records the map of lines 1801-1816 returns:
\* the records of the view's frames that have a parent
WithAbsolute_OnlyMapped(fi, v) ==
    [ id \in Range(absoluteFrames(fi, v)) |->
        AbsoluteOrigin(fi, fi[id]) @@ fi[id] ]

\* lines 1801-1816: the registry after the map, absX and absY written
WithAbsolute(fi, v) ==
    [ id \in DOMAIN fi |->
        IF id \in Range(absoluteFrames(fi, v))
        THEN AbsoluteOrigin(fi, fi[id]) @@ fi[id]
        ELSE fi[id] ]

\* lines 1819-1820: the point lies strictly inside the computed bounds
Contains(info, x, y) ==
    /\ info.absX < x /\ info.absY < y
    /\ info.absX + info.width > x /\ info.absY + info.height > y

\* SelectFrame with `>=` for the `>` of line 1822: a later frame of equal
\* width replaces an earlier one
RECURSIVE SelectFrame_LastOfEqual(_, _, _, _, _, _)
SelectFrame_LastOfEqual(fi, frames, i, x, y, relevantFrame) ==
    IF i > Len(frames) THEN relevantFrame
    ELSE LET info == fi[frames[i]]
         IN  SelectFrame_LastOfEqual(fi, frames, i + 1, x, y,
                IF ~Contains(info, x, y) THEN relevantFrame
                ELSE IF relevantFrame = {} THEN {frames[i]}
                ELSE IF fi[The(relevantFrame)].width >= info.width
                     THEN {frames[i]}
                     ELSE relevantFrame)

\* lines 1817-1831: the forEach over absoluteFrames; relevantFrame is an
\* optional frame id (the record it names is the object the code holds)
RECURSIVE SelectFrame(_, _, _, _, _, _)
SelectFrame(fi, frames, i, x, y, relevantFrame) ==
    IF i > Len(frames) THEN relevantFrame
    ELSE LET info == fi[frames[i]]
         IN  SelectFrame(fi, frames, i + 1, x, y,
                IF ~Contains(info, x, y) THEN relevantFrame
                ELSE IF relevantFrame = {} THEN {frames[i]}
                ELSE IF fi[The(relevantFrame)].width > info.width
                     THEN {frames[i]}
                     ELSE relevantFrame)

\* lines 1799-1837: the returned frame (optional), the registry with the
\* cached origins, and whether the catch block sent a main-error
findRelevantSubFrame(fi, wc, x, y) ==
    IF wc \notin Views
    THEN [frame |-> {}, frameInfo |-> fi, error |-> TRUE]
    ELSE LET fi2 == WithAbsolute(fi, wc)
         IN  [frame |-> SelectFrame(fi2, absoluteFrames(fi, wc), 1, x, y, {}),
              frameInfo |-> fi2,
              error |-> FALSE]

ErrorsOf(r) == IF r.error THEN <<MainError>> ELSE <<>>

(***************************************************************************)
(* Inbound positional events: action, contextmenu-data, focus-input,       *)
(* send-input-event                                                        *)
(***************************************************************************)
\* frameRef.send(...) inside try/catch: a missing frameRef throws
SendToRef(frameRef, channel, args) ==
    IF frameRef = {} THEN MainError
    ELSE Msg(ToFrame(The(frameRef)), channel, args)

\* lines 1838-1863
Action(id, actionName, opts) ==
    LET positional == Len(opts) >= 2
        r == IF positional
             THEN findRelevantSubFrame(frameInfo, id, opts[1], opts[2])
             ELSE [frame |-> {}, frameInfo |-> frameInfo, error |-> FALSE]
    IN  /\ ~hung
            /\ nEvents' = nEvents + 1
        /\ frameInfo' = r.frameInfo
        /\ IF r.frame # {}
           THEN LET subframe == r.frameInfo[The(r.frame)]
                    frameRef == FrameRef(id, subframe.id)
                    selection == SendToRef(frameRef, "action",
                                <<actionName,
                                  opts[1] - subframe.absX,
                                  opts[2] - subframe.absY,
                                  opts[3] - subframe.absX,
                                  opts[4] - subframe.absY>>)
                    translated == SendToRef(frameRef, "action",
                                <<actionName,
                                  opts[1] - subframe.absX,
                                  opts[2] - subframe.absY>>
                                \o SubSeq(opts, 3, Len(opts)))
                IN  /\ sent' = ErrorsOf(r) \o
                          (IF frameRef = {} THEN <<MainError>>
                           ELSE IF actionName = "selectionRequest"
                                THEN <<selection, translated>>
                                ELSE <<translated>>)
                    /\ threw' = FALSE
           ELSE IF id \in Views
           THEN /\ sent' = ErrorsOf(r) \o
                      SeqMap(LAMBDA f : Msg(ToFrame(f), "action",
                                            <<actionName>> \o opts),
                             ViewFrames(id))
                /\ threw' = FALSE
           ELSE /\ sent' = ErrorsOf(r)
                /\ threw' = TRUE
        /\ handled' = Handled("action", NoFrame, id, <<actionName>> \o opts,
                              IF positional
                              THEN {[x |-> opts[1], y |-> opts[2]]} ELSE {},
                              r.frame)
        /\ UNCHANGED <<allLinks, hung>>

\* lines 1864-1884
ContextmenuData(id, info) ==
    LET r == findRelevantSubFrame(frameInfo, id, info.x, info.y)
    IN  /\ ~hung
            /\ nEvents' = nEvents + 1
        /\ frameInfo' = r.frameInfo
        /\ IF r.frame # {}
           THEN LET subframe == r.frameInfo[The(r.frame)]
                IN  /\ sent' = ErrorsOf(r) \o
                          <<SendToRef(FrameRef(id, subframe.id),
                                "contextmenu-data",
                                <<[x |-> info.x - subframe.absX,
                                   y |-> info.y - subframe.absY] @@ info>>)>>
                    /\ threw' = FALSE
           ELSE IF id \in Views
           THEN /\ sent' = ErrorsOf(r)
                      \o <<Msg(ToView(id), "contextmenu-data", <<info>>)>>
                /\ threw' = FALSE
           ELSE /\ sent' = ErrorsOf(r)
                /\ threw' = TRUE
        /\ handled' = Handled("contextmenu-data", NoFrame, id, <<info>>,
                              {[x |-> info.x, y |-> info.y]}, r.frame)
        /\ UNCHANGED <<allLinks, hung>>

\* lines 1893-1914; location is optional
FocusInput(id, location) ==
    LET r == IF location # {}
             THEN findRelevantSubFrame(frameInfo, id,
                                       The(location).x, The(location).y)
             ELSE [frame |-> {}, frameInfo |-> frameInfo, error |-> FALSE]
    IN  /\ ~hung
            /\ nEvents' = nEvents + 1
        /\ frameInfo' = r.frameInfo
        /\ IF r.frame # {}
           THEN LET subframe == r.frameInfo[The(r.frame)]
                IN  /\ sent' = ErrorsOf(r) \o
                          <<SendToRef(FrameRef(id, subframe.id),
                                "focus-input",
                                <<[x |-> The(location).x - subframe.absX,
                                   y |-> The(location).y - subframe.absY]>>)>>
                    /\ threw' = FALSE
           ELSE IF id \in Views
           THEN /\ sent' = ErrorsOf(r)
                      \o <<Msg(ToView(id), "focus-input", <<location>>)>>
                /\ threw' = FALSE
           ELSE /\ sent' = ErrorsOf(r)
                /\ threw' = TRUE
        /\ handled' = Handled("focus-input", NoFrame, id, <<location>>,
                              location, r.frame)
        /\ UNCHANGED <<allLinks, hung>>

\* CustomMouseEvent with the deltas of a scroll made frame-local like the
\* position
CustomMouseEvent_LocalDeltas(inputInfo, subframe) ==
    LET X == inputInfo.x
        Y == inputInfo.y
    IN  IF inputInfo.type = "scroll"
        THEN <<"mousewheel",
               [deltaX |-> OrZero(Field(inputInfo, "deltaX")) - subframe.absX,
                deltaY |-> OrZero(Field(inputInfo, "deltaY")) - subframe.absY,
                x |-> X - subframe.absX, y |-> Y - subframe.absY]>>
        ELSE IF inputInfo.type = "click"
        THEN <<"click",
               [button |-> OrElse(Field(inputInfo, "button"), "left"),
                x |-> X - subframe.absX, y |-> Y - subframe.absY]>>
        ELSE IF inputInfo.type = "leave"
        THEN <<"mouseleave",
               [x |-> X - subframe.absX, y |-> Y - subframe.absY]>>
        ELSE <<"mouseenter",
               [x |-> X - subframe.absX, y |-> Y - subframe.absY]>>

\* lines 2028-2053: the one message sent to the frame that was hit
CustomMouseEvent(inputInfo, subframe) ==
    LET X == inputInfo.x
        Y == inputInfo.y
    IN  IF inputInfo.type = "scroll"
        THEN <<"mousewheel",
               [deltaX |-> OrZero(Field(inputInfo, "deltaX")),
                deltaY |-> OrZero(Field(inputInfo, "deltaY")),
                x |-> X - subframe.absX, y |-> Y - subframe.absY]>>
        ELSE IF inputInfo.type = "click"
        THEN <<"click",
               [button |-> OrElse(Field(inputInfo, "button"), "left"),
                x |-> X - subframe.absX, y |-> Y - subframe.absY]>>
        ELSE IF inputInfo.type = "leave"
        THEN <<"mouseleave",
               [x |-> X - subframe.absX, y |-> Y - subframe.absY]>>
        ELSE <<"mouseenter",
               [x |-> X - subframe.absX, y |-> Y - subframe.absY]>>

\* NativeInput that hands the event to the main frame of the view as a
\* frame message instead of issuing native input
NativeInput_ToMainFrame(id, inputInfo) ==
    <<Msg(ToFrame(MainFrameOf(id)), "custom-mouse-event",
          CustomMouseEvent(inputInfo, [absX |-> 0, absY |-> 0]))>>

\* lines 2059-2088: the native input events issued on the root view
NativeInput(id, inputInfo) ==
    LET X == inputInfo.x
        Y == inputInfo.y
        Native(e) == Msg(ToInput(id), "sendInputEvent", <<e>>)
        button == OrElse(Field(inputInfo, "button"), "left")
    IN  IF inputInfo.type = "scroll"
        THEN <<Native([deltaX |-> OrZero(Field(inputInfo, "deltaX")),
                       deltaY |-> OrZero(Field(inputInfo, "deltaY")),
                       type |-> "mouseWheel", x |-> X, y |-> Y])>>
        ELSE <<Native([type |-> "mouseEnter", x |-> X, y |-> Y]),
               Native([type |-> "mouseMove", x |-> X, y |-> Y])>>
             \o (IF inputInfo.type = "click"
                 THEN <<Native([button |-> button, clickCount |-> 1,
                                type |-> "mouseDown", x |-> X, y |-> Y]),
                        Native([button |-> button,
                                type |-> "mouseUp", x |-> X, y |-> Y])>>
                 ELSE <<>>)
             \o (IF inputInfo.type \in {"click", "leave"}
                 THEN <<Native([type |-> "mouseLeave", x |-> X, y |-> Y])>>
                 ELSE <<>>)

\* SendInputEvent without the `return` of line 2057: after the message to
\* the hit frame the native input events are issued on the root view too
SendInputEvent_FallsThrough(id, inputInfo) ==
    LET r == findRelevantSubFrame(frameInfo, id, inputInfo.x, inputInfo.y)
    IN  /\ ~hung
        /\ nEvents' = nEvents + 1
        /\ frameInfo' = r.frameInfo
        /\ IF r.frame # {}
           THEN LET subframe == r.frameInfo[The(r.frame)]
                IN  /\ sent' = ErrorsOf(r) \o
                          <<SendToRef(FrameRef(id, subframe.id),
                                "custom-mouse-event",
                                CustomMouseEvent(inputInfo, subframe))>>
                          \o NativeInput(id, inputInfo)
                    /\ threw' = FALSE
           ELSE IF id \in Views
           THEN /\ sent' = ErrorsOf(r) \o NativeInput(id, inputInfo)
                /\ threw' = FALSE
           ELSE /\ sent' = ErrorsOf(r)
                /\ threw' = TRUE
        /\ handled' = Handled("send-input-event", NoFrame, id, <<inputInfo>>,
                              {[x |-> inputInfo.x, y |-> inputInfo.y]},
                              r.frame)
        /\ UNCHANGED <<allLinks, hung>>

\* lines 2014-2089
SendInputEvent(id, inputInfo) ==
    LET r == findRelevantSubFrame(frameInfo, id, inputInfo.x, inputInfo.y)
    IN  /\ ~hung
            /\ nEvents' = nEvents + 1
        /\ frameInfo' = r.frameInfo
        /\ IF r.frame # {}
           THEN LET subframe == r.frameInfo[The(r.frame)]
                IN  /\ sent' = ErrorsOf(r) \o
                          <<SendToRef(FrameRef(id, subframe.id),
                                "custom-mouse-event",
                                CustomMouseEvent(inputInfo, subframe))>>
                    /\ threw' = FALSE
           ELSE IF id \in Views
           THEN /\ sent' = ErrorsOf(r) \o NativeInput(id, inputInfo)
                /\ threw' = FALSE
           ELSE /\ sent' = ErrorsOf(r)
                /\ threw' = TRUE
        /\ handled' = Handled("send-input-event", NoFrame, id, <<inputInfo>>,
                              {[x |-> inputInfo.x, y |-> inputInfo.y]},
                              r.frame)
        /\ UNCHANGED <<allLinks, hung>>

(***************************************************************************)
(* replace-input-field, send-keyboard-event                                *)
(***************************************************************************)
\* lines 1915-1928; frameId is optional
ReplaceInputField(id, frameId, correction, inputField) ==
    /\ ~hung
    /\ nEvents' = nEvents + 1
    /\ sent' = IF id \notin Views THEN <<MainError>>
               ELSE IF frameId # {}
               THEN <<SendToRef(FrameRef(id, The(frameId)),
                                "replace-input-field",
                                <<correction, inputField>>)>>
               ELSE <<Msg(ToView(id), "replace-input-field",
                          <<correction, inputField>>)>>
    /\ threw' = FALSE
    /\ handled' = Handled("replace-input-field", NoFrame, id,
                          <<frameId, correction, inputField>>, {}, {})
    /\ UNCHANGED <<frameInfo, allLinks, hung>>

\* lines 2001-2005: the native key events, `type` set over the options
KeyInput(id, keyOptions) ==
    LET Native(type) == Msg(ToInput(id), "sendInputEvent",
                            <<[type |-> type] @@ keyOptions>>)
    IN  <<Native("keyDown")>>
        \o (IF Len(keyOptions.keyCode) = 1 THEN <<Native("char")>> ELSE <<>>)
        \o <<Native("keyUp")>>

\* lines 2006-2007: the frames of the subtree whose routing id is not the
\* main frame's (the first component of a frame id is the routing id)
KeyFrames(id) ==
    SelectSeq(ViewFrames(id), LAMBDA f : f[1] # MainFrameOf(id)[1])

\* lines 1996-2013
SendKeyboardEvent(id, keyOptions) ==
    /\ ~hung
    /\ nEvents' = nEvents + 1
    /\ sent' = IF id \notin Views THEN <<MainError>>
               ELSE KeyInput(id, keyOptions)
                    \o SeqMap(LAMBDA f : Msg(ToFrame(f), "keyboard-type-event",
                                             <<keyOptions>>),
                              KeyFrames(id))
    /\ threw' = FALSE
    /\ handled' = Handled("send-keyboard-event", NoFrame, id, <<keyOptions>>,
                          {}, {})
    /\ UNCHANGED <<frameInfo, allLinks, hung>>

(***************************************************************************)
(* Outbound positional events: translateMouseEvent                         *)
(***************************************************************************)
\* clickInfo?.k + origin || null, as an optional number
PlusOrNull(opt, origin) ==
    IF opt = {} \/ The(opt) + origin = 0 THEN {} ELSE {The(opt) + origin}

\* WebviewId comparing routing ids only, the process id left out
WebviewId_ByRoutingId(parentId) ==
    LET owners == {wc \in AllWebContents : MainFrameOf(wc)[1] = parentId[1]}
    IN  IF owners = {} THEN {} ELSE {The(owners)}

\* lines 1953-1966: the id of the webContents whose main frame is parentId
WebviewId(parentId) ==
    LET owners == {wc \in AllWebContents : MainFrameOf(wc) = parentId}
    IN  IF owners = {} THEN {} ELSE {The(owners)}

\* lines 1949-1987: the event returned once the origin is known
TranslatedEvent(fi, frameId, clickInfo, origin) ==
    LET info == InfoOf(fi, frameId)
    IN  [ endX |-> PlusOrNull(Field(clickInfo, "endX"), origin.frameX),
          endY |-> PlusOrNull(Field(clickInfo, "endY"), origin.frameY),
          frame |-> IF OrZero(Field(info, "x")) # 0
                       /\ OrElse(Field(info, "url"), "") # ""
                    THEN info.url ELSE clickInfo.frame,
          frameAbsX |-> origin.frameX,
          frameAbsY |-> origin.frameY,
          frameHeight |-> Field(info, "height"),
          frameId |-> frameId,
          frameWidth |-> Field(info, "width"),
          frameX |-> Field(info, "x"),
          frameY |-> Field(info, "y"),
          startX |-> PlusOrNull(Field(clickInfo, "startX"), origin.frameX),
          startY |-> PlusOrNull(Field(clickInfo, "startY"), origin.frameY),
          webviewId |-> WebviewId(origin.parentId),
          x |-> clickInfo.x + origin.frameX,
          xInFrame |-> clickInfo.x,
          y |-> clickInfo.y + origin.frameY,
          yInFrame |-> clickInfo.y ] @@ clickInfo

\* lines 1929-1987
translateMouseEvent(fi, frameId, clickInfo) ==
    TranslatedEvent(fi, frameId, clickInfo, ResolveAbsolute(fi, frameId))

\* lines 1988-1995: mouse-selection, mouse-down-location, mouse-click-info,
\* context-click-info
MouseReport(f, channel, clickInfo) ==
    /\ ~hung
    /\ nEvents' = nEvents + 1
    /\ IF ResolveAbsolute(frameInfo, f).ends
       THEN /\ sent' = <<Msg(ToMain, channel,
                             <<translateMouseEvent(frameInfo, f, clickInfo)>>)>>
            /\ hung' = FALSE
       ELSE /\ sent' = <<>>
            /\ hung' = TRUE
    /\ threw' = FALSE
    /\ handled' = Handled(channel, f, 0, <<clickInfo>>, {}, {})
    /\ UNCHANGED <<frameInfo, allLinks>>

(***************************************************************************)
(* The messages of the model                                               *)
(***************************************************************************)
\* window-absolute points of input events
Points == { [x |-> 120, y |-> 70], [x |-> 270, y |-> 85],
            [x |-> 320, y |-> 100], [x |-> 200, y |-> 40],
            [x |-> 100, y |-> 50] }
\* frame-local points of links and mouse reports
LocalPoints == { [x |-> 20, y |-> 20], [x |-> 160, y |-> 10] }
\* the root content id and the point of a positional message: every point
\* on view 2, one point on view 3 and on an id that names no view
PointerCalls ==
    { [id |-> 2, x |-> p.x, y |-> p.y] : p \in Points }
    \cup { [id |-> v, x |-> 270, y |-> 85] : v \in {3} \cup BadViews }
InputTypes == {"scroll", "click", "leave", "hover"}
InputInfo(type, c) ==
    IF type = "scroll"
    THEN [type |-> type, x |-> c.x, y |-> c.y, deltaY |-> 30]
    ELSE [type |-> type, x |-> c.x, y |-> c.y]
ContextInfo(c) == [x |-> c.x, y |-> c.y, hasLink |-> TRUE]
\* the arguments of an action after its name
ActionOpts(actionName, c) ==
    IF actionName = "selectionRequest" THEN <<c.x, c.y, 290, 100>>
    ELSE <<c.x, c.y>>
ClickInfos ==
    { [x |-> p.x, y |-> p.y, frame |-> "u0"] : p \in LocalPoints }
    \cup { [x |-> 30, y |-> 40, frame |-> "u0",
            startX |-> p.x, startY |-> p.y, endX |-> 0, endY |-> 40]
            : p \in LocalPoints }
\* the channel a mouse report arrives on
MouseChannels(clickInfo) ==
    IF "startX" \in DOMAIN clickInfo THEN {"mouse-selection"}
    ELSE {"mouse-down-location", "mouse-click-info", "context-click-info"}
RawLinks == SeqsUpTo(LocalPoints, MaxLinks)
\* the options of a key press: a printable key and a named key
KeyOptions == { [keyCode |-> "a"], [keyCode |-> "Enter"] }
\* the frame a replace-input-field names: none, a live frame of view 2, or a
\* frame that is no longer in any frame tree
InputFrames == { {}, {<<2, 2>>}, {<<5, 2>>} }

\* lines 1711-1747
FrameDetails(f, details) ==
    /\ ~hung
    /\ frameInfo' = Record(frameInfo, f, details)
    /\ sent' = <<>>
    /\ threw' = FALSE
    /\ handled' = Handled("frame-details", f, 0, <<details>>, {}, {})
    /\ UNCHANGED <<allLinks, hung, nEvents>>

Init ==
    /\ frameInfo = <<>>
    /\ allLinks = <<>>
    /\ sent = <<>>
    /\ threw = FALSE
    /\ hung = FALSE
    /\ handled = Handled("", NoFrame, 0, <<>>, {}, {})
    /\ nEvents = 0
    /\ gone = {}
    /\ history = <<>>

\* a step of a behaviour that destroys no frame and keeps no log
Unlogged == UNCHANGED <<gone, history>>
\* the bound on the messages other than frame-details
MoreEvents == nEvents < MaxEvents

Next ==
    \/ \E f \in Frames : \E details \in Details(f) :
        FrameDetails(f, details) /\ Unlogged
    \/ \E id \in Views \cup BadViews, switchTo \in BOOLEAN :
        MoreEvents /\ FollowModeStart(id, "all", switchTo) /\ Unlogged
    \/ \E f \in Frames, rawLinks \in RawLinks :
        MoreEvents /\ FollowResponse(f, rawLinks) /\ Unlogged
    \/ \E c \in PointerCalls, actionName \in {"selectionRequest", "click"} :
        /\ MoreEvents
        /\ Action(c.id, actionName, ActionOpts(actionName, c))
        /\ Unlogged
    \/ \E id \in Views \cup BadViews :
        MoreEvents /\ Action(id, "scrollDown", <<>>) /\ Unlogged
    \/ \E c \in PointerCalls :
        MoreEvents /\ ContextmenuData(c.id, ContextInfo(c)) /\ Unlogged
    \/ \E c \in PointerCalls :
        MoreEvents /\ FocusInput(c.id, {[x |-> c.x, y |-> c.y]}) /\ Unlogged
    \/ \E id \in Views \cup BadViews :
        MoreEvents /\ FocusInput(id, {}) /\ Unlogged
    \/ \E c \in PointerCalls, type \in InputTypes :
        MoreEvents /\ SendInputEvent(c.id, InputInfo(type, c)) /\ Unlogged
    \/ \E f \in Frames, clickInfo \in ClickInfos :
        \E channel \in MouseChannels(clickInfo) :
            MoreEvents /\ MouseReport(f, channel, clickInfo) /\ Unlogged
    \/ \E id \in Views \cup BadViews, frameId \in InputFrames :
        /\ MoreEvents
        /\ ReplaceInputField(id, frameId, "text", "input")
        /\ Unlogged
    \/ \E id \in Views \cup BadViews, keyOptions \in KeyOptions :
        MoreEvents /\ SendKeyboardEvent(id, keyOptions) /\ Unlogged

Spec == Init /\ [][Next]_vars

(***************************************************************************)
(* A second page in view 2, with every report logged.  The page u4 embeds  *)
(* u5 and u5 embeds u4 again: the frame tree is 1-2 (u4) > 2-2 (u5) > 3-2  *)
(* (u4), and every frame lists its direct children only.  The parent moves *)
(* its child between two reports.                                          *)
(***************************************************************************)
NestedFrames == { <<1, 2>>, <<2, 2>>, <<3, 2>> }
\* <<parent, child>> for each sub-frame of the page
NestedEmbeds == { << <<1, 2>>, <<2, 2>> >>, << <<2, 2>>, <<3, 2>> >> }
NestedDetails(f) ==
    IF f = <<1, 2>>
    THEN { Report("u4", 800, 600, <<>>),
           Report("u4", 800, 600, <<SubReport("u5", 100, 50, 300, 200)>>),
           Report("u4", 800, 600, <<SubReport("u5", 600, 30, 500, 400)>>) }
    ELSE IF f = <<2, 2>>
    THEN { Report("u5", 300, 200, <<>>),
           Report("u5", 300, 200, <<SubReport("u4", 150, 20, 200, 100)>>) }
    ELSE { Report("u4", 200, 100, <<>>) }

NestedNext ==
    \E f \in NestedFrames : \E details \in NestedDetails(f) :
        /\ Len(history) < MaxReports
        /\ FrameDetails(f, details)
        /\ history' = Append(history, handled')
        /\ UNCHANGED gone

NestedSpec == Init /\ [][NestedNext]_vars

(***************************************************************************)
(* Follow mode, with every follow-mode message logged.  View 2 shows u1,   *)
(* which embeds u2 at (100,50) 300x200; its window is 350 wide, or 100     *)
(* wide after a resize, and then nothing of u2 is inside it.  View 3 shows *)
(* u1 without a sub-frame.  The renderer starts follow mode on a view; a   *)
(* frame that was told to start answers with the links it has, and goes on *)
(* answering; the sub-frame of view 2 may be destroyed.                    *)
(***************************************************************************)
LinkFrames == { <<1, 2>>, <<2, 2>>, <<1, 4>> }
LinkDetails(f) ==
    IF f = <<1, 2>>
    THEN { Report("u1", 350, 600, <<SubReport("u2", 100, 50, 300, 200)>>),
           Report("u1", 100, 600, <<SubReport("u2", 100, 50, 300, 200)>>) }
    ELSE IF f = <<2, 2>>
    THEN { Report("u2", 300, 200, <<>>) }
    ELSE { Report("u1", 350, 600, <<>>) }
\* frame-local positions of the links a frame reports
LinkPoints == { [x |-> 20, y |-> 20], [x |-> 260, y |-> 20] }
\* the links of one follow-response: each link carries, besides its
\* position, data of its own, here the ordinal of the message it came with
LinkReports ==
    { [i \in 1..MaxLinks |-> [x |-> p.x, y |-> p.y, n |-> Len(history) + 1]] :
        p \in LinkPoints }
\* lines 1692-1693: the frame was sent a follow-mode-start
ToldToStart(f) ==
    \E i \in 1..Len(history) :
        /\ history[i].channel = "follow-mode-start"
        /\ f \in Range(PageFrames(history[i].id))
\* a sub-frame is removed from its page
FrameDestroyed(f) ==
    /\ f \notin gone
    /\ gone' = gone \cup {f}
    /\ UNCHANGED <<frameInfo, allLinks, sent, threw, hung, handled, nEvents,
                   history>>
Logged == history' = Append(history, handled') /\ UNCHANGED gone
MoreSessionEvents == nEvents < MaxSessionEvents

LinkNext ==
    \/ \E f \in LinkFrames \ gone : \E details \in LinkDetails(f) :
        FrameDetails(f, details) /\ Unlogged
    \/ \E id \in Views, switchTo \in BOOLEAN :
        MoreSessionEvents /\ FollowModeStart(id, "all", switchTo) /\ Logged
    \/ \E f \in LinkFrames \ gone : \E rawLinks \in LinkReports :
        /\ MoreSessionEvents
        /\ ToldToStart(f)
        /\ FollowResponse(f, rawLinks)
        /\ Logged
    \/ FrameDestroyed(<<2, 2>>)

LinkSpec == Init /\ [][LinkNext]_vars

(***************************************************************************)
(* A page whose sub-frame navigates, with every report logged.  The main   *)
(* frame 1-2 shows u1 and embeds one iframe, the frame 2-2, at (100,50)    *)
(* 300x200; the iframe shows u2 and later u6, and after the navigation the *)
(* main frame lists it under its new url, at the same place or moved.  In  *)
(* a window of 100x40 the iframe starts beyond the viewport of the main    *)
(* frame, at (150,50).                                                     *)
(***************************************************************************)
NavFrames == { <<1, 2>>, <<2, 2>> }
NavDetails(f) ==
    IF f = <<1, 2>>
    THEN { Report("u1", 800, 600, <<>>),
           Report("u1", 800, 600, <<SubReport("u2", 100, 50, 300, 200)>>),
           Report("u1", 800, 600, <<SubReport("u6", 100, 50, 300, 200)>>),
           Report("u1", 800, 600, <<SubReport("u6", 400, 50, 300, 200)>>),
           Report("u1", 100, 40, <<SubReport("u2", 150, 50, 300, 200)>>) }
    ELSE { Report("u2", 300, 200, <<>>),
           Report("u6", 300, 200, <<>>),
           Report("u6", 300, 200, <<SubReport("u6", 10, 10, 100, 50)>>) }
NavNext ==
    \E f \in NavFrames : \E details \in NavDetails(f) :
        /\ Len(history) < MaxReports
        /\ FrameDetails(f, details)
        /\ history' = Append(history, handled')
        /\ UNCHANGED gone
NavSpec == Init /\ [][NavNext]_vars

(***************************************************************************)
(* Pointer messages during follow mode, every message logged.  View 2      *)
(* shows u1 with the sub-frame u2 at (100,50), which embeds u3 at (150,20); *)
(* follow mode is started on the view, its frames answer with links, and   *)
(* the renderer sends positional messages for a point inside the inner     *)
(* sub-frame and for a point outside every sub-frame.                      *)
(***************************************************************************)
MaxHitEvents == 3
HitFrames == { <<1, 2>>, <<2, 2>>, <<3, 2>> }
HitDetails(f) ==
    IF f = <<1, 2>>
    THEN { Report("u1", 800, 600, <<SubReport("u2", 100, 50, 300, 200)>>) }
    ELSE IF f = <<2, 2>>
    THEN { Report("u2", 300, 200, <<>>),
           Report("u2", 300, 200, <<SubReport("u3", 150, 20, 200, 100)>>) }
    ELSE { Report("u3", 200, 100, <<>>) }
HitCalls == { [id |-> 2, x |-> 270, y |-> 85], [id |-> 2, x |-> 20, y |-> 20] }
\* the links of a follow-response: one link at (20,20) of the frame
HitLinks ==
    { [i \in 1..MaxLinks |-> [x |-> 20, y |-> 20, n |-> Len(history) + 1]] }
MoreHitEvents == nEvents < MaxHitEvents
HitNext ==
    \/ \E f \in HitFrames : \E details \in HitDetails(f) :
        FrameDetails(f, details) /\ Unlogged
    \/ MoreHitEvents /\ FollowModeStart(2, "all", TRUE) /\ Logged
    \/ \E f \in HitFrames : \E rawLinks \in HitLinks :
        /\ MoreHitEvents
        /\ ToldToStart(f)
        /\ FollowResponse(f, rawLinks)
        /\ Logged
    \/ \E c \in HitCalls :
        MoreHitEvents /\ Action(c.id, "click", ActionOpts("click", c)) /\ Logged
    \/ \E c \in HitCalls :
        MoreHitEvents /\ ContextmenuData(c.id, ContextInfo(c)) /\ Logged
    \/ \E c \in HitCalls :
        MoreHitEvents /\ FocusInput(c.id, {[x |-> c.x, y |-> c.y]}) /\ Logged
    \/ \E c \in HitCalls, type \in InputTypes :
        MoreHitEvents /\ SendInputEvent(c.id, InputInfo(type, c)) /\ Logged
HitSpec == Init /\ [][HitNext]_vars

(***************************************************************************)
(* Notions the properties share                                            *)
(***************************************************************************)
Max(a, b) == IF a >= b THEN a ELSE b
\* the last message handled ran the hit-test on a point
HitTested ==
    /\ handled.channel \in {"action", "contextmenu-data", "focus-input",
                            "send-input-event"}
    /\ handled.point # {}
\* ... and the hit-test returned a frame
HitFound == HitTested /\ handled.hit # {}
QueryPoint == The(handled.point)
HitFrame == The(handled.hit)
\* position of a frame in the enumeration of a view's subtree
IndexIn(v, f) == CHOOSE i \in 1..Len(ViewFrames(v)) : ViewFrames(v)[i] = f
\* the origin the parent-chain walk gives for a frame
Origin(f) == ResolveAbsolute(frameInfo, f)
\* the point lies strictly inside the frame's bounds from the walk's origin
InsideAbsoluteBounds(f, p) ==
    /\ Origin(f).frameX < p.x
    /\ p.x < Origin(f).frameX + frameInfo[f].width
    /\ Origin(f).frameY < p.y
    /\ p.y < Origin(f).frameY + frameInfo[f].height
\* no parent chain of the registry runs into a cycle
WalksEnd == \A f \in DOMAIN frameInfo : Origin(f).ends
\* the candidates of the hit-test: the frames of a view's subtree that have
\* a recorded parent and whose absolute bounds strictly contain the point
Candidates(v, p) ==
    IF v \notin Views THEN {}
    ELSE { f \in Range(ViewFrames(v)) \cap DOMAIN frameInfo :
             /\ "parent" \in DOMAIN frameInfo[f]
             /\ Origin(f).ends
             /\ InsideAbsoluteBounds(f, p) }
\* the coordinates in the message the hit frame received
Delivered ==
    LET m == sent[Len(sent)]
    IN  IF handled.channel = "send-input-event"
        THEN [x |-> m.args[2].x, y |-> m.args[2].y]
        ELSE IF handled.channel = "action"
        THEN [x |-> m.args[2], y |-> m.args[3]]
        ELSE [x |-> m.args[1].x, y |-> m.args[1].y]
\* the origin a handler is expected to compute for a frame: its parent's
\* origin plus its own local origin, or its local origin without a parent
ExpectedOrigin(f) ==
    LET info == InfoOf(frameInfo, f)
    IN  IF Field(info, "parent") # {}
        THEN [x |-> Origin(info.parent).frameX + info.x,
              y |-> Origin(info.parent).frameY + info.y]
        ELSE [x |-> OrZero(Field(info, "x")), y |-> OrZero(Field(info, "y"))]

(***************************************************************************)
(* C1: in every registry state, for every record whose parent walk ends,   *)
(* the origin the walk of follow-response and translateMouseEvent gives    *)
(* is the origin it gives for the parent plus the record's (x, y), and     *)
(* (x, y) with missing coordinates as 0 for a record without parent; the   *)
(* frameAbsX and frameAbsY the two handlers send are that origin.          *)
(***************************************************************************)
C1_OriginIsParentOriginPlusLocal ==
    /\ \A f \in DOMAIN frameInfo :
        Origin(f).ends =>
            /\ Origin(f).frameX = ExpectedOrigin(f).x
            /\ Origin(f).frameY = ExpectedOrigin(f).y
    /\ (handled.channel = "follow-response" /\ ~hung) =>
        \A i \in 1..Len(allLinks) :
            allLinks[i].frameId = handled.from =>
                /\ allLinks[i].frameAbsX = ExpectedOrigin(handled.from).x
                /\ allLinks[i].frameAbsY = ExpectedOrigin(handled.from).y
                /\ allLinks[i].x
                     = allLinks[i].xInFrame + ExpectedOrigin(handled.from).x
                /\ allLinks[i].y
                     = allLinks[i].yInFrame + ExpectedOrigin(handled.from).y
    /\ (handled.channel \in {"mouse-selection", "mouse-down-location",
                             "mouse-click-info", "context-click-info"}
        /\ ~hung) =>
            /\ sent[1].args[1].frameAbsX = ExpectedOrigin(handled.from).x
            /\ sent[1].args[1].frameAbsY = ExpectedOrigin(handled.from).y

\* a mouse report of frame 3-2, nested in 2-2 at (150,20), itself nested in
\* the main frame at (100,50), was translated with origin (250,70)
C1_Witness ==
    /\ handled.channel = "mouse-click-info"
    /\ handled.from = <<3, 2>>
    /\ ~hung
    /\ Field(InfoOf(frameInfo, <<3, 2>>), "parent") = {<<2, 2>>}
    /\ Field(InfoOf(frameInfo, <<2, 2>>), "parent") = {<<1, 2>>}
    /\ sent[1].args[1].frameAbsX = 250
    /\ sent[1].args[1].frameAbsY = 70

(***************************************************************************)
(* C2: findRelevantSubFrame never returns a frame whose absolute bounds    *)
(* (origin resolved over the whole parent chain, plus width and height)    *)
(* do not strictly contain the query point, at every nesting depth.        *)
(***************************************************************************)
C2_HitInsideAbsoluteBounds ==
    (HitFound /\ Origin(HitFrame).ends) =>
        InsideAbsoluteBounds(HitFrame, QueryPoint)

(***************************************************************************)
(* C3: for every live frame that has a parent, the absX and absY that      *)
(* findRelevantSubFrame computes equal the origin of the parent-chain walk *)
(* of follow-response and translateMouseEvent.                             *)
(***************************************************************************)
C3_CachedOriginIsWalkOrigin ==
    (HitTested /\ handled.id \in Views) =>
        \A f \in Range(absoluteFrames(frameInfo, handled.id)) :
            Origin(f).ends =>
                /\ frameInfo[f].absX = Origin(f).frameX
                /\ frameInfo[f].absY = Origin(f).frameY

(***************************************************************************)
(* C4: round trip.  A point strictly inside a registered frame F without   *)
(* descendants, made F-local by send-input-event (hit-test, then minus     *)
(* absX and absY) and translated back by translateMouseEvent for F, is the *)
(* point again, for F at any nesting depth.                                *)
(***************************************************************************)
C4_RoundTrip ==
    (/\ handled.channel = "send-input-event"
     /\ HitFound
     /\ Origin(HitFrame).ends
     /\ \A g \in DOMAIN frameInfo :
            Field(frameInfo[g], "parent") # {HitFrame}
     /\ InsideAbsoluteBounds(HitFrame, QueryPoint)) =>
        LET back == translateMouseEvent(frameInfo, HitFrame,
                        [x |-> Delivered.x, y |-> Delivered.y,
                         frame |-> "u0"])
        IN  back.x = QueryPoint.x /\ back.y = QueryPoint.y

(***************************************************************************)
(* C5: when the hit-test finds a frame for an inbound positional event,    *)
(* the coordinates delivered to it are the absolute coordinates minus the  *)
(* frame's absolute origin; with the main frame at (0,0) and one child at  *)
(* local rect (100,50,300,200), a click at (120,70) reaches the child with *)
(* local coordinates (20,20).                                              *)
(***************************************************************************)
C5_DeliveredIsAbsoluteMinusOrigin ==
    /\ (HitFound /\ Origin(HitFrame).ends) =>
        /\ Delivered.x = QueryPoint.x - Origin(HitFrame).frameX
        /\ Delivered.y = QueryPoint.y - Origin(HitFrame).frameY
    /\ (/\ HitTested
        /\ handled.id = 2
        /\ QueryPoint = [x |-> 120, y |-> 70]
        /\ Field(InfoOf(frameInfo, <<1, 2>>), "parent") = {}
        /\ \A f \in DOMAIN frameInfo :
             Field(frameInfo[f], "parent") # {}
                => f = <<2, 2>> /\ frameInfo[f].parent = <<1, 2>>
        /\ <<2, 2>> \in DOMAIN frameInfo
        /\ Field(frameInfo[<<2, 2>>], "parent") # {}) =>
            /\ handled.hit = {<<2, 2>>}
            /\ Delivered = [x |-> 20, y |-> 20]

(***************************************************************************)
(* C6: among the candidates for the query point (the frames with a         *)
(* recorded parent whose absolute bounds strictly contain it),             *)
(* findRelevantSubFrame returns one of minimal width: no candidate is      *)
(* strictly narrower than the returned frame (registries without a cycle). *)
(***************************************************************************)
C6_NarrowestCandidate ==
    (HitFound /\ WalksEnd) =>
        \A g \in Candidates(handled.id, QueryPoint) :
             frameInfo[g].width >= frameInfo[HitFrame].width

C8_NoneIffNoCandidate ==
    (HitTested /\ WalksEnd) =>
        (handled.hit = {} <=> Candidates(handled.id, QueryPoint) = {})

(***************************************************************************)
(* C9: every record that has geometry has usableWidth <= width and         *)
(* usableHeight <= height (the reports carry non-negative coordinates and  *)
(* sizes).                                                                 *)
(***************************************************************************)
C9_UsableWithinSize ==
    \A f \in DOMAIN frameInfo :
        "width" \in DOMAIN frameInfo[f] =>
            /\ frameInfo[f].usableWidth <= frameInfo[f].width
            /\ frameInfo[f].usableHeight <= frameInfo[f].height

\* a report just clipped a child: its usable width is less than its width
C9_Witness ==
    /\ handled.channel = "frame-details"
    /\ \E f \in DOMAIN frameInfo :
        /\ Field(frameInfo[f], "parent") = {handled.from}
        /\ frameInfo[f].usableWidth < frameInfo[f].width
        /\ frameInfo[f].usableHeight = frameInfo[f].height

(***************************************************************************)
(* C10: after a frame-details report each matched child record has         *)
(* usableWidth = width - max(0, x + width - parentViewportWidth) and       *)
(* usableHeight = height - max(0, y + height - parentViewportHeight); the  *)
(* rect (100,50,300,200) gets usable 300x200 in an 800x600 viewport and    *)
(* usableWidth 250 in a 350x600 viewport.                                  *)
(***************************************************************************)
C10_UsableIsSizeMinusOverflow ==
    handled.channel = "frame-details" =>
        LET details == handled.args[1]
            subs == details.subframes
        IN  \A f \in DOMAIN frameInfo \ {handled.from} :
            \A i \in 1..Len(subs) :
                (/\ subs[i].url = frameInfo[f].url
                 /\ \A j \in (i + 1)..Len(subs) :
                        subs[j].url # frameInfo[f].url) =>
                    /\ frameInfo[f].width = subs[i].width
                    /\ frameInfo[f].height = subs[i].height
                    /\ frameInfo[f].usableWidth = subs[i].width
                         - Max(0, subs[i].x + subs[i].width - details.width)
                    /\ frameInfo[f].usableHeight = subs[i].height
                         - Max(0, subs[i].y + subs[i].height - details.height)
                    /\ (/\ subs[i].x = 100 /\ subs[i].y = 50
                        /\ subs[i].width = 300 /\ subs[i].height = 200
                        /\ details.width = 800 /\ details.height = 600)
                            => /\ frameInfo[f].usableWidth = 300
                               /\ frameInfo[f].usableHeight = 200
                    /\ (/\ subs[i].x = 100 /\ subs[i].y = 50
                        /\ subs[i].width = 300 /\ subs[i].height = 200
                        /\ details.width = 350 /\ details.height = 600)
                            => frameInfo[f].usableWidth = 250

\* the rect (100,50,300,200) was just reported in a 350x600 viewport and
\* the child record has usable width 250
C10_Witness ==
    /\ handled.channel = "frame-details"
    /\ handled.args[1].width = 350
    /\ Len(handled.args[1].subframes) = 1
    /\ handled.args[1].subframes[1].width = 300
    /\ \E f \in DOMAIN frameInfo :
        /\ Field(frameInfo[f], "parent") = {handled.from}
        /\ frameInfo[f].url = handled.args[1].subframes[1].url
        /\ frameInfo[f].usableWidth = 250
        /\ frameInfo[f].usableHeight = 200

(***************************************************************************)
(* C11: handling the frame-details report that was just handled once more  *)
(* (same reporting frame, same url, sub-reports and viewport) leaves the   *)
(* registry as it is, in every state a report leads to.                    *)
(***************************************************************************)
C11_SameReportTwice ==
    handled.channel = "frame-details" =>
        Record(frameInfo, handled.from, handled.args[1]) = frameInfo

\* frame 2-2, itself placed by its parent, just reported its child 3-2,
\* which is clipped by the viewport of 2-2
C11_Witness ==
    /\ handled.channel = "frame-details"
    /\ handled.from = <<2, 2>>
    /\ Len(handled.args[1].subframes) = 1
    /\ Field(InfoOf(frameInfo, <<2, 2>>), "parent") = {<<1, 2>>}
    /\ Field(InfoOf(frameInfo, <<3, 2>>), "parent") = {<<2, 2>>}
    /\ frameInfo[<<3, 2>>].usableWidth = 150
    /\ frameInfo[<<3, 2>>].width = 200

(***************************************************************************)
(* C12: from the empty registry, the parent's report that lists the        *)
(* child's url followed by the child's first report gives the same         *)
(* registry as the two reports in the opposite order, and in both orders   *)
(* the child record has the rect the parent reported and the reporting     *)
(* frame as its parent.                                                    *)
(***************************************************************************)
C12_ParentChildOrder ==
    \A pc \in NestedEmbeds :
        LET P == pc[1]
            C == pc[2]
        IN  (/\ Len(history) = 2
             /\ {history[1].from, history[2].from} = {P, C}
             /\ Len(history[1].args[1].subframes)
                  + Len(history[2].args[1].subframes) = 1) =>
            LET first == history[1]
                second == history[2]
                dP == IF first.from = P THEN first.args[1] ELSE second.args[1]
                otherOrder ==
                    Record(Record(<<>>, second.from, second.args[1]),
                           first.from, first.args[1])
            IN  Len(dP.subframes) = 1 =>
                    /\ frameInfo = otherOrder
                    /\ Field(frameInfo[C], "parent") = {P}
                    /\ Field(frameInfo[C], "x") = {dP.subframes[1].x}
                    /\ Field(frameInfo[C], "y") = {dP.subframes[1].y}
                    /\ Field(frameInfo[C], "width")
                         = {dP.subframes[1].width}
                    /\ Field(frameInfo[C], "height")
                         = {dP.subframes[1].height}

(***************************************************************************)
(* C13: when every reporter lists only the urls of its direct children in  *)
(* an acyclic frame tree, with a url repeated at two depths, the parent    *)
(* relation of the registry has no cycle: following `parent` from any      *)
(* record ends at a record without a parent.                               *)
(***************************************************************************)
C13_ParentChainEnds ==
    \A f \in DOMAIN frameInfo : ResolveAbsolute(frameInfo, f).ends

(***************************************************************************)
(* C14: a frame-details report by frame F gives every record whose url is  *)
(* the url of a sub-report, and whose id is not F, that sub-report's x, y, *)
(* width and height and the parent F; every record whose url matches no    *)
(* sub-report keeps its geometry and its parent (every other record keeps  *)
(* all its fields, the reporter all but id and url).                       *)
(***************************************************************************)
C14_MatchedSetOthersKept ==
    [][ handled'.channel = "frame-details" =>
          LET F == handled'.from
              subs == handled'.args[1].subframes
              Matching(id) == { i \in 1..Len(subs) :
                                  subs[i].url = frameInfo'[id].url }
              Last(S) == CHOOSE i \in S : \A j \in S : j <= i
          IN  \A id \in DOMAIN frameInfo' :
                /\ (id # F /\ Matching(id) # {}) =>
                      LET sub == subs[Last(Matching(id))]
                          rec == frameInfo'[id]
                      IN  /\ rec.x = sub.x /\ rec.y = sub.y
                          /\ rec.width = sub.width
                          /\ rec.height = sub.height
                          /\ rec.parent = F
                /\ (id # F /\ Matching(id) = {}) =>
                      /\ id \in DOMAIN frameInfo
                      /\ frameInfo'[id] = frameInfo[id]
                /\ (id = F /\ Matching(id) = {} /\ F \in DOMAIN frameInfo) =>
                      /\ DOMAIN frameInfo'[F]
                           = DOMAIN frameInfo[F] \cup {"id", "url"}
                      /\ \A k \in DOMAIN frameInfo[F] \ {"id", "url"} :
                            frameInfo'[F][k] = frameInfo[F][k]
      ]_vars

\* frame 3-2 just reported its child of url u3: the record of 1-3 carries
\* the rect and the parent 3-2, the record of 2-2 (url u2) still has the
\* rect and the parent its own parent 1-2 gave it
C14_Witness ==
    /\ handled.channel = "frame-details"
    /\ handled.from = <<3, 2>>
    /\ Len(handled.args[1].subframes) = 1
    /\ Field(InfoOf(frameInfo, <<1, 3>>), "parent") = {<<3, 2>>}
    /\ frameInfo[<<1, 3>>].x = handled.args[1].subframes[1].x
    /\ Field(InfoOf(frameInfo, <<2, 2>>), "parent") = {<<1, 2>>}
    /\ frameInfo[<<2, 2>>].x = 100

(***************************************************************************)
(* C19: no handler removes a key of the registry: every key present before *)
(* a step is present after it.                                             *)
(***************************************************************************)
C19_NoKeyRemoved ==
    [][DOMAIN frameInfo \subseteq DOMAIN frameInfo']_vars

\* a hit-test ran over a registry of all five frames and wrote an absolute
\* origin into the record of 2-2; the record of the root 1-2, which has no
\* parent, is still there
C19_Witness ==
    /\ HitTested
    /\ Cardinality(DOMAIN frameInfo) = 5
    /\ "absX" \in DOMAIN frameInfo[<<2, 2>>]
    /\ Field(frameInfo[<<1, 2>>], "parent") = {}

\* the last two reports handled, and whether they are two reports of one
\* parent that give one child url two different rects
FirstReport == history[Len(history) - 1]
SecondReport == history[Len(history)]
TwoRectsForOneChild ==
    /\ Len(history) >= 2
    /\ FirstReport.from = SecondReport.from
    /\ Len(FirstReport.args[1].subframes) = 1
    /\ Len(SecondReport.args[1].subframes) = 1
    /\ FirstReport.args[1].subframes[1].url
         = SecondReport.args[1].subframes[1].url
    /\ FirstReport.args[1].subframes[1]
         # SecondReport.args[1].subframes[1]

(***************************************************************************)
(* C20: a later report wins: after two successive reports of one parent    *)
(* with different rects for one child url, every matched child record has  *)
(* the x, y, width and height of the second report and the usable size     *)
(* derived from it (the part of the rect inside the parent's viewport),    *)
(* and every key of the registry holds the one record of that id.          *)
(***************************************************************************)
C20_LaterReportWins ==
    TwoRectsForOneChild =>
        LET details == SecondReport.args[1]
            sub == details.subframes[1]
        IN  /\ \A id \in DOMAIN frameInfo :
                  (frameInfo[id].url = sub.url /\ id # SecondReport.from) =>
                      /\ frameInfo[id].x = sub.x
                      /\ frameInfo[id].y = sub.y
                      /\ frameInfo[id].width = sub.width
                      /\ frameInfo[id].height = sub.height
                      /\ frameInfo[id].usableWidth
                           = IF sub.x + sub.width > details.width
                             THEN details.width - sub.x ELSE sub.width
                      /\ frameInfo[id].usableHeight
                           = IF sub.y + sub.height > details.height
                             THEN details.height - sub.y ELSE sub.height
            /\ \A id \in DOMAIN frameInfo : frameInfo[id].id = id

\* 1-2 reported its child of url u5 at (100, 50) and then at (600, 30), where
\* the child overflows the viewport: the record of 2-2 has the second rect
\* and the usable width 200
C20_Witness ==
    /\ TwoRectsForOneChild
    /\ SecondReport.from = <<1, 2>>
    /\ FirstReport.args[1].subframes[1].x = 100
    /\ SecondReport.args[1].subframes[1].x = 600
    /\ <<2, 2>> \in DOMAIN frameInfo
    /\ frameInfo[<<2, 2>>].x = 600
    /\ frameInfo[<<2, 2>>].usableWidth = 200

\* a follow-response was just handled and its links were merged
Merged == handled.channel = "follow-response" /\ ~hung
\* the entries of the global link list that belong to one frame
EntriesOf(f) == SelectSeq(allLinks, LAMBDA l : l.frameId = f)

(***************************************************************************)
(* C15: after the links of a frame F with registered usable dimensions are *)
(* merged, no entry of F in the global link list has a local position      *)
(* outside the usable rectangle of F (xInFrame >= usableWidth or           *)
(* yInFrame >= usableHeight), whatever the usable dimensions are, 0        *)
(* included.                                                               *)
(***************************************************************************)
C15_NoEntryOutsideUsable ==
    LET F == handled.from
    IN  ( /\ Merged
          /\ F \in DOMAIN frameInfo
          /\ {"usableWidth", "usableHeight"} \subseteq DOMAIN frameInfo[F] ) =>
            \A i \in 1..Len(EntriesOf(F)) :
                /\ EntriesOf(F)[i].xInFrame < frameInfo[F].usableWidth
                /\ EntriesOf(F)[i].yInFrame < frameInfo[F].usableHeight

\* the same with the usable width 0 left aside: in this page the usable
\* height is never 0
C15_NoEntryOutsidePositiveUsable ==
    LET F == handled.from
    IN  ( /\ Merged
          /\ F \in DOMAIN frameInfo
          /\ {"usableWidth", "usableHeight"} \subseteq DOMAIN frameInfo[F]
          /\ frameInfo[F].usableWidth # 0 ) =>
            \A i \in 1..Len(EntriesOf(F)) :
                /\ EntriesOf(F)[i].xInFrame < frameInfo[F].usableWidth
                /\ EntriesOf(F)[i].yInFrame < frameInfo[F].usableHeight

\* the position in the log of the last follow-mode-start, 0 if there is none
SessionStart ==
    LET starts == { i \in 1..Len(history) :
                      history[i].channel = "follow-mode-start" }
    IN  IF starts = {} THEN 0
        ELSE CHOOSE i \in starts : \A j \in starts : j <= i
\* the frame whose links were just merged had links merged before, after
\* the last follow-mode-start
MergedAgain ==
    /\ Merged
    /\ SessionStart > 0
    /\ \E i \in (SessionStart + 1)..(Len(history) - 1) :
          /\ history[i].channel = "follow-response"
          /\ history[i].from = handled.from

(***************************************************************************)
(* C16: when follow-response is handled for a frame A a second time in one *)
(* follow-mode session, the entries of A in the global link list are       *)
(* exactly the filtered links of the second report, and none of them came  *)
(* with an earlier report.                                                 *)
(***************************************************************************)
C16_SecondReportReplacesFirst ==
    MergedAgain =>
        LET A == handled.from
            origin == ResolveAbsolute(frameInfo, A)
        IN  /\ EntriesOf(A) = FrameLinks(frameInfo, A, handled.args[1],
                                         origin.frameX, origin.frameY)
            /\ \A i \in 1..Len(EntriesOf(A)) :
                  EntriesOf(A)[i].n = Len(history)

\* 1-2 reported a link, 2-2 reported one, 1-2 reported a link again: the
\* list holds the entry of 2-2 and after it the one entry of 1-2
C16_Witness ==
    /\ MergedAgain
    /\ handled.from = <<1, 2>>
    /\ Len(history) = 4
    /\ history[2].from = <<1, 2>>
    /\ history[3].from = <<2, 2>>
    /\ Len(allLinks) = 2
    /\ allLinks[1].frameId = <<2, 2>>
    /\ allLinks[2].frameId = <<1, 2>>
    /\ allLinks[2].n = 4

\* the view follow mode was last started on: the active top-level view
ActiveView == history[SessionStart].id
\* this step handled a follow-response and merged its links, in a session
\* whose follow-mode-start emptied the list
MergesInClearedSession ==
    /\ history' # history
    /\ handled'.channel = "follow-response"
    /\ ~hung'
    /\ SessionStart > 0
    /\ history[SessionStart].args[2]

(***************************************************************************)
(* C17: after every merge of a follow-response, each entry of the global   *)
(* link list whose frameId is not the reporter's belongs to a frame of the *)
(* live frame tree of the active top-level view, as it is at the merge.    *)
(***************************************************************************)
C17_OthersLiveInActiveView ==
    [][ MergesInClearedSession =>
          \A i \in 1..Len(allLinks') :
              allLinks'[i].frameId # handled'.from =>
                  allLinks'[i].frameId \in Range(ViewFrames(ActiveView))
      ]_vars

\* the same for the frame tree of the main window, the frames of every view
C17_OthersLiveInWindow ==
    [][ MergesInClearedSession =>
          \A i \in 1..Len(allLinks') :
              allLinks'[i].frameId # handled'.from =>
                  allLinks'[i].frameId \in Range(MainWindowFrames)
      ]_vars

(***************************************************************************)
(* C18: every follow-mode-start empties the global link list, whatever its *)
(* arguments: no list sent after a follow-mode-start holds an entry that   *)
(* was merged before that follow-mode-start.                               *)
(***************************************************************************)
C18_NoEntryFromEarlierSession ==
    (Merged /\ SessionStart > 0) =>
        \A i \in 1..Len(sent[1].args) : sent[1].args[i].n > SessionStart

\* the list is empty when a follow-mode-start on a view has been handled
C18_StartEmptiesList ==
    (handled.channel = "follow-mode-start" /\ handled.id \in Views) =>
        allLinks = <<>>

\* the same for a follow-mode-start whose third argument is true
C18_SwitchingStartEmptiesList ==
    ( /\ handled.channel = "follow-mode-start"
      /\ handled.id \in Views
      /\ handled.args[2] ) =>
        allLinks = <<>>

(***************************************************************************)
(* C21: a follow-response from a frame without a record in the registry is *)
(* handled without an error: the origin is (0,0), every link of the report *)
(* is kept with x = xInFrame and y = yInFrame, and the batch is the end of  *)
(* the global link list, which is sent to the window.                      *)
(***************************************************************************)
C21_UnregisteredFrameLinksKept ==
    LET F == handled.from
        rawLinks == handled.args[1]
        n == Len(rawLinks)
    IN  (handled.channel = "follow-response" /\ F \notin DOMAIN frameInfo) =>
            /\ ~hung /\ ~threw
            /\ sent = <<Msg(ToMain, "follow-response", allLinks)>>
            /\ Len(EntriesOf(F)) = n
            /\ Len(allLinks) >= n
            /\ \A i \in 1..n :
                  LET l == allLinks[Len(allLinks) - n + i]
                  IN  /\ l.frameId = F
                      /\ l.xInFrame = rawLinks[i].x
                      /\ l.yInFrame = rawLinks[i].y
                      /\ l.x = l.xInFrame /\ l.y = l.yInFrame
                      /\ l.frameAbsX = 0 /\ l.frameAbsY = 0

\* 2-2 has no record and reports a link at (260,20) after 1-2 reported one:
\* the list is the entry of 1-2 and then the entry of 2-2
C21_Witness ==
    /\ handled.channel = "follow-response"
    /\ handled.from = <<2, 2>>
    /\ <<2, 2>> \notin DOMAIN frameInfo
    /\ Len(allLinks) = 2
    /\ allLinks[1].frameId = <<1, 2>>
    /\ allLinks[2].frameId = <<2, 2>>
    /\ allLinks[2].x = 260

\* the frames that received a message of the last handler
Receivers == { sent[i].to.frame : i \in { j \in 1..Len(sent) :
                                             sent[j].to.kind = "frame" } }
\* an action message was handled for a view that exists
ActionHandled == handled.channel = "action" /\ handled.id \in Views
\* the action went to every frame of the view's subtree, once each, as sent
BroadcastUnmodified ==
    sent = SeqMap(LAMBDA f : Msg(ToFrame(f), "action", handled.args),
                  ViewFrames(handled.id))

(***************************************************************************)
(* C22: an action whose first two arguments are numbers and whose hit-test *)
(* finds a frame is received by that frame only, with the coordinates in   *)
(* that frame's local space (the point minus the frame's absolute origin); *)
(* every other action is received by every frame of the view's subtree     *)
(* exactly once, with the arguments as they were sent.                     *)
(***************************************************************************)
C22_ActionToHitFrameOrBroadcast ==
    ( /\ ActionHandled
      /\ WalksEnd
      /\ Field(InfoOf(frameInfo, MainFrameOf(handled.id)), "parent") = {} ) =>
        IF HitFound
        THEN /\ Receivers = {HitFrame}
             /\ \A i \in 1..Len(sent) : sent[i].to = ToFrame(HitFrame)
             /\ Delivered.x = QueryPoint.x - Origin(HitFrame).frameX
             /\ Delivered.y = QueryPoint.y - Origin(HitFrame).frameY
        ELSE BroadcastUnmodified

\* the routing alone: the hit frame and no other, or the whole subtree
C22_ActionRouting ==
    ActionHandled =>
        IF HitFound
        THEN /\ Receivers = {HitFrame}
             /\ \A i \in 1..Len(sent) : sent[i].to = ToFrame(HitFrame)
             /\ Delivered.x = QueryPoint.x - frameInfo[HitFrame].absX
             /\ Delivered.y = QueryPoint.y - frameInfo[HitFrame].absY
        ELSE BroadcastUnmodified

\* a selectionRequest action was handled and its start point hit a frame
SelectionHit ==
    ActionHandled /\ handled.args[1] = "selectionRequest" /\ HitFound
\* the selectionRequest with both points made local to the hit frame by the
\* origin the hit-test cached for it
SelectionInFrame ==
    LET info == frameInfo[HitFrame]
    IN  Msg(ToFrame(HitFrame), "action",
            <<"selectionRequest",
              handled.args[2] - info.absX, handled.args[3] - info.absY,
              handled.args[4] - info.absX, handled.args[5] - info.absY>>)

(***************************************************************************)
(* C23: a selectionRequest whose start point hits a frame is delivered     *)
(* exactly once, to that frame, with the start point and the end point     *)
(* both made local to that frame.                                          *)
(***************************************************************************)
C23_SelectionDeliveredOnce ==
    ( /\ SelectionHit
      /\ Field(InfoOf(frameInfo, MainFrameOf(handled.id)), "parent") = {} ) =>
        sent = <<SelectionInFrame>>

\* the delivery with both points translated is the first of the messages
C23_SelectionDeliveredFirst ==
    SelectionHit =>
        /\ sent[1] = SelectionInFrame
        /\ Receivers = {HitFrame}

\* a key press was handled for a view that exists
KeyHandled == handled.channel = "send-keyboard-event" /\ handled.id \in Views
\* the frames of the view other than its main frame, by the pair (routing
\* id, process id)
Subframes(v) == SelectSeq(ViewFrames(v), LAMBDA f : f # MainFrameOf(v))
\* the messages of the last handler that went to frames
FrameMessages == SelectSeq(sent, LAMBDA m : m.to.kind = "frame")

(***************************************************************************)
(* C24: for send-keyboard-event the key events go to the native input      *)
(* pipeline of the view first (keyDown, char when the key code has length  *)
(* 1, keyUp); after them every frame of the view's subtree other than its  *)
(* main frame, frames being told apart by routing id and process id,       *)
(* receives exactly one keyboard-type-event, and the main frame none.      *)
(***************************************************************************)
C24_KeysThenEverySubframe ==
    KeyHandled =>
        LET keyOptions == handled.args[1]
            n == Len(KeyInput(handled.id, keyOptions))
        IN  /\ SubSeq(sent, 1, n) = KeyInput(handled.id, keyOptions)
            /\ SubSeq(sent, n + 1, Len(sent))
                 = SeqMap(LAMBDA f : Msg(ToFrame(f), "keyboard-type-event",
                                         <<keyOptions>>),
                          Subframes(handled.id))

\* the native events come first, in order; no frame is notified twice, and
\* the main frame is not notified
C24_KeysFirstNoFrameTwice ==
    KeyHandled =>
        LET keyOptions == handled.args[1]
            n == Len(KeyInput(handled.id, keyOptions))
        IN  /\ SubSeq(sent, 1, n) = KeyInput(handled.id, keyOptions)
            /\ n = IF keyOptions.keyCode = "a" THEN 3 ELSE 2
            /\ FrameMessages = SubSeq(sent, n + 1, Len(sent))
            /\ \A i, j \in 1..Len(FrameMessages) :
                  FrameMessages[i].to = FrameMessages[j].to => i = j
            /\ MainFrameOf(handled.id) \notin Receivers
            /\ Receivers \subseteq Range(Subframes(handled.id))

\* a mouse report was handled and translated
MouseTranslated ==
    /\ handled.channel \in {"mouse-selection", "mouse-down-location",
                            "mouse-click-info", "context-click-info"}
    /\ ~hung
\* the event sent to the window, and the event the frame reported
TranslatedSent == sent[1].args[1]
ReportedClick == handled.args[1]

(***************************************************************************)
(* C25: translateMouseEvent adds the absolute origin of the reporting      *)
(* frame to every positional field the event has: x and y, and startX,     *)
(* startY, endX and endY of a selection; a start or end coordinate that is *)
(* there is sent as its value plus the origin, whatever the sum is, 0      *)
(* included.                                                               *)
(***************************************************************************)
C25_EveryPositionPlusOrigin ==
    MouseTranslated =>
        LET o == Origin(handled.from)
        IN  /\ TranslatedSent.x = ReportedClick.x + o.frameX
            /\ TranslatedSent.y = ReportedClick.y + o.frameY
            /\ \A k \in {"startX", "endX"} \cap DOMAIN ReportedClick :
                  TranslatedSent[k] = {ReportedClick[k] + o.frameX}
            /\ \A k \in {"startY", "endY"} \cap DOMAIN ReportedClick :
                  TranslatedSent[k] = {ReportedClick[k] + o.frameY}

\* the same for the start and end coordinates whose sum with the origin is
\* not 0
C25_NonZeroPositionPlusOrigin ==
    MouseTranslated =>
        LET o == Origin(handled.from)
        IN  /\ TranslatedSent.x = ReportedClick.x + o.frameX
            /\ TranslatedSent.y = ReportedClick.y + o.frameY
            /\ \A k \in {"startX", "endX"} \cap DOMAIN ReportedClick :
                  ReportedClick[k] + o.frameX # 0 =>
                      TranslatedSent[k] = {ReportedClick[k] + o.frameX}
            /\ \A k \in {"startY", "endY"} \cap DOMAIN ReportedClick :
                  ReportedClick[k] + o.frameY # 0 =>
                      TranslatedSent[k] = {ReportedClick[k] + o.frameY}

\* the outermost ancestor of a frame: the frame at the end of its chain of
\* recorded parents, the frame itself when it has no parent
RECURSIVE OutermostAncestor(_, _)
OutermostAncestor(f, fuel) ==
    LET parent == Field(InfoOf(frameInfo, f), "parent")
    IN  IF parent = {} \/ fuel = 0 THEN f
        ELSE OutermostAncestor(The(parent), fuel - 1)
\* the top-level views whose main frame is the frame
ViewsOf(f) == { v \in Views : MainFrameOf(v) = f }

(***************************************************************************)
(* C26: translateMouseEvent names as owning view the live top-level view   *)
(* whose main frame is the outermost ancestor of the reporting frame (the  *)
(* reporting frame itself when it has no parent); when no view matches the *)
(* field is empty, and the translated event is sent all the same, without  *)
(* an error.                                                               *)
(***************************************************************************)
C26_OwningViewOfOutermostAncestor ==
    MouseTranslated =>
        LET top == OutermostAncestor(handled.from,
                                     Cardinality(DOMAIN frameInfo))
        IN  /\ TranslatedSent.webviewId = ViewsOf(top)
            /\ Cardinality(ViewsOf(top)) <= 1
            /\ Len(sent) = 1
            /\ sent[1].to = ToMain /\ sent[1].channel = handled.channel
            /\ ~threw

\* frame 3-2 reported a click; its chain of parents is 2-2, then the main
\* frame of view 2, and the event names view 2
C26_Witness ==
    /\ MouseTranslated
    /\ handled.from = <<3, 2>>
    /\ Field(InfoOf(frameInfo, <<3, 2>>), "parent") = {<<2, 2>>}
    /\ Field(InfoOf(frameInfo, <<2, 2>>), "parent") = {<<1, 2>>}
    /\ Field(InfoOf(frameInfo, <<1, 2>>), "parent") = {}
    /\ TranslatedSent.webviewId = {2}

\* frame 1-3 reported a click before any frame was registered: it is its
\* own outermost ancestor and no view's main frame, the field is empty
C26_UnownedReached ==
    /\ MouseTranslated
    /\ handled.from = <<1, 3>>
    /\ frameInfo = <<>>
    /\ TranslatedSent.webviewId = {}

\* a scroll input event was handled for a view that exists
ScrollHandled ==
    /\ handled.channel = "send-input-event"
    /\ handled.id \in Views
    /\ handled.args[1].type = "scroll"
\* the event the scroll was delivered as: the second argument of the
\* message to the hit frame, or the native event on the root
ScrollDelivered ==
    IF HitFound THEN sent[1].args[2] ELSE sent[1].args[1]
\* a delta of the input, 0 when the input has none
InputDelta(k) ==
    IF k \in DOMAIN handled.args[1] THEN handled.args[1][k] ELSE 0

(***************************************************************************)
(* C27: a scroll input event is delivered, to the hit frame or to the      *)
(* root, with the deltaX and deltaY of the input, a missing delta as 0,    *)
(* wherever the frame is; of the fields of the input only x and y are      *)
(* shifted for a frame, and nothing is shifted on the root.                *)
(***************************************************************************)
C27_ScrollDeltasUnchanged ==
    ScrollHandled =>
        /\ Len(sent) = 1
        /\ ScrollDelivered.deltaX = InputDelta("deltaX")
        /\ ScrollDelivered.deltaY = InputDelta("deltaY")
        /\ IF HitFound
           THEN /\ sent[1].to = ToFrame(HitFrame)
                /\ sent[1].args[1] = "mousewheel"
                /\ DOMAIN ScrollDelivered = {"deltaX", "deltaY", "x", "y"}
           ELSE /\ sent[1].to = ToInput(handled.id)
                /\ ScrollDelivered.type = "mouseWheel"
                /\ ScrollDelivered.x = QueryPoint.x
                /\ ScrollDelivered.y = QueryPoint.y

\* a scroll with deltaY 30 and no deltaX hit frame 3-2, whose origin is not
\* (0,0): the frame got deltaX 0, deltaY 30 and a shifted position
C27_Witness ==
    /\ ScrollHandled
    /\ HitFound
    /\ HitFrame = <<3, 2>>
    /\ frameInfo[<<3, 2>>].absX = 250
    /\ "deltaX" \notin DOMAIN handled.args[1]
    /\ ScrollDelivered.deltaX = 0
    /\ ScrollDelivered.deltaY = 30
    /\ ScrollDelivered.x = QueryPoint.x - 250

\* a contextmenu-data, focus-input or send-input-event message was handled
\* for a view that exists, and its hit-test found no frame
RootDelivery ==
    /\ HitTested
    /\ handled.channel # "action"
    /\ handled.id \in Views
    /\ ~HitFound

(***************************************************************************)
(* C28: when the hit-test finds no frame the event goes to the root        *)
(* content area with its coordinates as received: contextmenu-data and     *)
(* focus-input are sent to the top-level view with the original payload,   *)
(* send-input-event issues native input events at the original x and y,    *)
(* and no frame receives anything.                                         *)
(***************************************************************************)
C28_NoHitGoesToRootUnmodified ==
    RootDelivery =>
        /\ Receivers = {}
        /\ Len(sent) >= 1
        /\ IF handled.channel = "send-input-event"
           THEN \A i \in 1..Len(sent) :
                    /\ sent[i].to = ToInput(handled.id)
                    /\ sent[i].args[1].x = QueryPoint.x
                    /\ sent[i].args[1].y = QueryPoint.y
           ELSE sent = <<Msg(ToView(handled.id), handled.channel,
                             handled.args)>>

\* a click at (200,40) on view 2, above the registered sub-frame 2-2, was
\* issued as five native events on the view
C28_Witness ==
    /\ RootDelivery
    /\ handled.channel = "send-input-event"
    /\ handled.args[1].type = "click"
    /\ QueryPoint = [x |-> 200, y |-> 40]
    /\ Field(InfoOf(frameInfo, <<2, 2>>), "parent") = {<<1, 2>>}
    /\ Len(sent) = 5
    /\ sent[3].args[1].type = "mouseDown"

\* an action, contextmenu-data, focus-input or send-input-event message was
\* handled whose root content id names no live top-level view
LookupFailed ==
    /\ handled.channel \in {"action", "contextmenu-data", "focus-input",
                            "send-input-event"}
    /\ handled.id \notin Views

(***************************************************************************)
(* C29: a lookup failure never aborts a handler: when the root content id  *)
(* of an action, contextmenu-data, focus-input or send-input-event message *)
(* names no live top-level view, the handler ends without an uncaught      *)
(* exception and sends a diagnostic on the main-error channel.             *)
(***************************************************************************)
C29_LookupFailureNotFatal ==
    LookupFailed => (~threw /\ MainError \in Range(sent))

\* such a message leaves the registry and the global link list as they were
C29_LookupFailureKeepsState ==
    [][ (handled'.channel \in {"action", "contextmenu-data", "focus-input",
                               "send-input-event"}
         /\ handled' # handled
         /\ handled'.id \notin Views) =>
            (frameInfo' = frameInfo /\ allLinks' = allLinks) ]_vars

\* a replace-input-field was handled for a view that exists and names a
\* frame that is not in the view's live frame tree
ReplaceInMissingFrame ==
    /\ handled.channel = "replace-input-field"
    /\ handled.id \in Views
    /\ handled.args[1] # {}
    /\ The(handled.args[1]) \notin Range(ViewFrames(handled.id))

(***************************************************************************)
(* C30: a replace-input-field that names a frame which is not in the live  *)
(* frame tree of the view is swallowed: nothing is delivered to a frame,   *)
(* no exception leaves the handler, and no error message is sent to the    *)
(* main window: the handler sends nothing at all.                          *)
(***************************************************************************)
C30_MissingFrameSwallowed ==
    ReplaceInMissingFrame => (sent = <<>> /\ ~threw)

\* nothing reaches a frame or the view, and no exception leaves the handler
C30_MissingFrameNotDelivered ==
    ReplaceInMissingFrame =>
        /\ ~threw
        /\ \A i \in 1..Len(sent) : sent[i].to = ToMain

\* the position of the query point in the hit frame, by the frame's origin
\* over its parent chain
LocalHit ==
    [x |-> QueryPoint.x - Origin(HitFrame).frameX,
     y |-> QueryPoint.y - Origin(HitFrame).frameY]
\* the origin the hit-test cached for the hit frame is its origin over the
\* parent chain
HitOriginExact ==
    /\ Origin(HitFrame).ends
    /\ frameInfo[HitFrame].absX = Origin(HitFrame).frameX
    /\ frameInfo[HitFrame].absY = Origin(HitFrame).frameY

(***************************************************************************)
(* C31: the clipped part of a frame is not interactive: the hit-test never *)
(* returns a frame for a point whose position in that frame is outside the *)
(* frame's usable rectangle (local x >= usableWidth or local y >=          *)
(* usableHeight).                                                          *)
(***************************************************************************)
C31_HitInsideUsable ==
    ( /\ HitFound
      /\ HitOriginExact
      /\ Field(InfoOf(frameInfo, MainFrameOf(handled.id)), "parent") = {} ) =>
        /\ LocalHit.x < frameInfo[HitFrame].usableWidth
        /\ LocalHit.y < frameInfo[HitFrame].usableHeight

\* the frame that is returned does contain the point in its full rectangle
C31_HitInsideSize ==
    (HitFound /\ HitOriginExact) =>
        /\ 0 < LocalHit.x /\ LocalHit.x < frameInfo[HitFrame].width
        /\ 0 < LocalHit.y /\ LocalHit.y < frameInfo[HitFrame].height

(***************************************************************************)
(* C32: the hit-test only returns a proper descendant in the live frame    *)
(* subtree of the view it is asked about: a frame of that subtree, never   *)
(* the view's own main frame, in every reachable registry.                 *)
(***************************************************************************)
C32_HitIsProperDescendant ==
    HitFound =>
        /\ handled.id \in Views
        /\ HitFrame \in Range(ViewFrames(handled.id))
        /\ HitFrame # MainFrameOf(handled.id)

\* the frame returned is a frame of the view's subtree
C32_HitIsInSubtree ==
    HitFound =>
        /\ handled.id \in Views
        /\ HitFrame \in Range(ViewFrames(handled.id))

(***************************************************************************)
(* C33: every handler that walks a chain of parents (follow-response,      *)
(* translateMouseEvent, findRelevantSubFrame) terminates in every registry *)
(* that frame-details reports can produce: no handler is ever in a loop    *)
(* that does not end.                                                      *)
(***************************************************************************)
C33_WalksTerminate == ~hung

\* a handler that does not end is the handler of a follow-response or of a
\* mouse report, never one that runs the hit-test
C33_HitTestTerminates ==
    hung => handled.channel \in {"follow-response", "mouse-selection",
                                 "mouse-down-location", "mouse-click-info",
                                 "context-click-info"}

(***************************************************************************)
(* C34: registry well-formedness: every record has its key as id and has a *)
(* url, and every record with a parent has a parent that is not its own id *)
(* and is the key of a record of the registry.                             *)
(***************************************************************************)
C34_RegistryWellFormed ==
    \A id \in DOMAIN frameInfo :
        /\ {"id", "url"} \subseteq DOMAIN frameInfo[id]
        /\ frameInfo[id].id = id
        /\ "parent" \in DOMAIN frameInfo[id] =>
              /\ frameInfo[id].parent # id
              /\ frameInfo[id].parent \in DOMAIN frameInfo

\* frame 3-2, whose page embeds its own url, reported its child: the record
\* of 1-3 has the parent 3-2, the record of 3-2 the parent 2-2, and all
\* five frames have a record
C34_Witness ==
    /\ handled.channel = "frame-details"
    /\ handled.from = <<3, 2>>
    /\ Len(handled.args[1].subframes) = 1
    /\ Cardinality(DOMAIN frameInfo) = 5
    /\ Field(InfoOf(frameInfo, <<1, 3>>), "parent") = {<<3, 2>>}
    /\ Field(InfoOf(frameInfo, <<3, 2>>), "parent") = {<<2, 2>>}

\* the top-level view a frame belongs to
ViewOf(f) == CHOOSE v \in Views : f \in Range(PageFrames(v))
\* this step handled a frame-details report
ReportStep == handled'.channel = "frame-details" /\ frameInfo' # frameInfo

(***************************************************************************)
(* C35: isolation between top-level views: a frame-details report of a     *)
(* frame of one view changes no field of the record of a frame of another  *)
(* view, also when frames of the two views have the same url.              *)
(***************************************************************************)
C35_OtherViewsUntouched ==
    [][ ReportStep =>
          \A id \in DOMAIN frameInfo :
              ViewOf(id) # ViewOf(handled'.from) =>
                  frameInfo'[id] = frameInfo[id]
      ]_vars

\* the same for the records whose url the report does not list
C35_OtherViewsUnlistedUntouched ==
    [][ ReportStep =>
          \A id \in DOMAIN frameInfo :
              ( /\ ViewOf(id) # ViewOf(handled'.from)
                /\ \A i \in 1..Len(handled'.args[1].subframes) :
                      handled'.args[1].subframes[i].url # frameInfo[id].url ) =>
                  frameInfo'[id] = frameInfo[id]
      ]_vars

\* the fields of a record other than id and url
Placement(rec) == [ k \in DOMAIN rec \ {"id", "url"} |-> rec[k] ]

(***************************************************************************)
(* C36: the report of a frame changes, of the frame's own record, only id  *)
(* and url: x, y, width, height, the usable size and the parent stay as a  *)
(* parent last set them, also when the reported url is not the url the     *)
(* record had (the frame navigated).                                       *)
(***************************************************************************)
C36_OwnReportKeepsPlacement ==
    [][ (history' # history /\ handled'.from \in DOMAIN frameInfo) =>
          LET F == handled'.from
          IN  /\ frameInfo'[F].id = F
              /\ frameInfo'[F].url = handled'.args[1].url
              /\ Placement(frameInfo'[F]) = Placement(frameInfo[F])
      ]_vars

\* the iframe 2-2 reported u2, was placed by the main frame, and reported
\* again after navigating to u6: its record has the url u6 and still the
\* rect and the parent it had as u2
C36_Witness ==
    /\ Len(history) = 3
    /\ history[1].from = <<2, 2>> /\ history[1].args[1].url = "u2"
    /\ history[2].from = <<1, 2>>
    /\ history[3].from = <<2, 2>> /\ history[3].args[1].url = "u6"
    /\ frameInfo[<<2, 2>>].url = "u6"
    /\ Field(frameInfo[<<2, 2>>], "parent") = {<<1, 2>>}
    /\ Field(frameInfo[<<2, 2>>], "x") = {100}
    /\ Field(frameInfo[<<2, 2>>], "usableWidth") = {300}

(***************************************************************************)
(* C37: when every reported coordinate and size is non-negative, the       *)
(* usableWidth and usableHeight of every record are non-negative, also     *)
(* for a child whose x or y lies beyond the width or height of the         *)
(* viewport of its parent.                                                 *)
(***************************************************************************)
C37_UsableNonNegative ==
    \A id \in DOMAIN frameInfo :
        /\ \A w \in Field(frameInfo[id], "usableWidth") : w >= 0
        /\ \A h \in Field(frameInfo[id], "usableHeight") : h >= 0

\* what lines 1731-1740 do keep: the usable rect ends at the edge of the
\* viewport of the parent or at the edge of the child, so that x plus the
\* usable width, and y plus the usable height, are not negative
C37_UsableEdgeNonNegative ==
    \A id \in DOMAIN frameInfo :
        /\ \A w \in Field(frameInfo[id], "usableWidth") :
              \A x \in Field(frameInfo[id], "x") : x + w >= 0
        /\ \A h \in Field(frameInfo[id], "usableHeight") :
              \A y \in Field(frameInfo[id], "y") : y + h >= 0

\* a record without the origin the hit-test caches in it
Uncached(rec) == [ k \in DOMAIN rec \ {"absX", "absY"} |-> rec[k] ]

(***************************************************************************)
(* C38: a call of findRelevantSubFrame leaves, in every record, url, x, y, *)
(* width, height, usableWidth, usableHeight and parent as they were, and   *)
(* leaves the set of keys of the registry and the global list of links as  *)
(* they were: only the cached absX and absY of a record may differ.        *)
(***************************************************************************)
C38_HitTestOnlyCaches ==
    [][ HitTested' =>
          /\ DOMAIN frameInfo' = DOMAIN frameInfo
          /\ \A id \in DOMAIN frameInfo :
                Uncached(frameInfo'[id]) = Uncached(frameInfo[id])
          /\ allLinks' = allLinks
      ]_vars

\* a hit-test found the inner sub-frame 3-2 while the list held links: it
\* wrote the origin (250,70) into the record, whose x and y are (150,20)
C38_Witness ==
    /\ HitFound
    /\ HitFrame = <<3, 2>>
    /\ allLinks # <<>>
    /\ Field(frameInfo[<<3, 2>>], "absX") = {250}
    /\ Field(frameInfo[<<3, 2>>], "absY") = {70}
    /\ Field(frameInfo[<<3, 2>>], "x") = {150}
    /\ Field(frameInfo[<<3, 2>>], "y") = {20}

\* this step handled a follow-response and merged its links
MergeStep ==
    /\ history' # history
    /\ handled'.channel = "follow-response"
    /\ ~hung'
\* the frames of the pages of the session that still exist
LiveFrames == LinkFrames \ gone
\* the position in the log of the last follow-response of a frame in the
\* session, 0 if it has not reported since the last follow-mode-start
LastReport(f) ==
    LET reports == { i \in (SessionStart + 1)..Len(history) :
                       /\ history[i].channel = "follow-response"
                       /\ history[i].from = f }
    IN  IF SessionStart = 0 \/ reports = {} THEN 0
        ELSE CHOOSE i \in reports : \A j \in reports : j <= i
\* every live frame has reported in the session
AllLiveReported == \A f \in LiveFrames : LastReport(f) > 0
\* the entries of a list that belong to a live frame other than A
OthersLive(links, A) ==
    SelectSeq(links, LAMBDA l : /\ l.frameId # A
                                /\ l.frameId \in Range(MainWindowFrames))

(***************************************************************************)
(* C39: the merge of a follow-response of a frame A keeps every entry of   *)
(* the global link list that belongs to another frame of the live frame    *)
(* tree, unchanged and in the same relative order, and puts the new batch  *)
(* of A, the filtered links of the report, after all of them.  So once     *)
(* every live frame has reported in a session, the list holds for each of  *)
(* them the batch of its last report and no entry of an earlier one.       *)
(***************************************************************************)
C39_MergeKeepsOthersThenBatch ==
    [][ MergeStep =>
          LET A == handled'.from
              origin == ResolveAbsolute(frameInfo, A)
              kept == OthersLive(allLinks, A)
              batch == FrameLinks(frameInfo, A, handled'.args[1],
                                  origin.frameX, origin.frameY)
          IN  /\ Len(allLinks') = Len(kept) + Len(batch)
              /\ SubSeq(allLinks', 1, Len(kept)) = kept
              /\ SubSeq(allLinks', Len(kept) + 1, Len(allLinks')) = batch
              /\ AllLiveReported' =>
                    \A i \in 1..Len(allLinks') :
                        \E f \in LiveFrames :
                            /\ allLinks'[i].frameId = f
                            /\ allLinks'[i].n = LastReport(f)'
      ]_vars

\* follow mode was started on view 2 and then on view 3, the sub-frame 2-2
\* was destroyed, and the two live frames reported a link each, 1-2 before
\* 1-4: the list is the entry of 1-2 and after it the entry of 1-4
C39_Witness ==
    /\ Merged
    /\ gone = {<<2, 2>>}
    /\ AllLiveReported
    /\ handled.from = <<1, 4>>
    /\ Len(allLinks) = 2
    /\ allLinks[1].frameId = <<1, 2>> /\ allLinks[1].n = LastReport(<<1, 2>>)
    /\ allLinks[2].frameId = <<1, 4>> /\ allLinks[2].n = Len(history)

\* a send-input-event was handled for a view that exists
InputHandled ==
    /\ handled.channel = "send-input-event"
    /\ handled.id \in Views
\* the name of the custom-mouse-event for a type of input
CustomName(type) ==
    IF type = "scroll" THEN "mousewheel"
    ELSE IF type = "click" THEN "click"
    ELSE IF type = "leave" THEN "mouseleave"
    ELSE "mouseenter"
\* the types of the messages of the last handler, in the order they were
\* issued, read as native input events
NativeTypes == [ i \in 1..Len(sent) |-> sent[i].args[1].type ]

(***************************************************************************)
(* C40: a send-input-event for a view goes to exactly one target.  When    *)
(* the hit-test finds a frame, that frame receives exactly one             *)
(* custom-mouse-event, named mousewheel for a scroll, click for a click,   *)
(* mouseleave for a leave and mouseenter for any other type, and no native *)
(* input event is issued on the root view.  When it finds none, native     *)
(* input events on the root view are all that is issued, and for a click   *)
(* they are mouseEnter, mouseMove, mouseDown, mouseUp, mouseLeave in this   *)
(* order.                                                                  *)
(***************************************************************************)
C40_InputToOneTarget ==
    InputHandled =>
        IF HitFound
        THEN /\ Len(sent) = 1
             /\ sent[1].to = ToFrame(HitFrame)
             /\ sent[1].channel = "custom-mouse-event"
             /\ sent[1].args[1] = CustomName(handled.args[1].type)
        ELSE /\ Len(sent) >= 1
             /\ \A i \in 1..Len(sent) :
                   /\ sent[i].to = ToInput(handled.id)
                   /\ sent[i].channel = "sendInputEvent"
             /\ handled.args[1].type = "click" =>
                   NativeTypes = <<"mouseEnter", "mouseMove", "mouseDown",
                                   "mouseUp", "mouseLeave">>

\* a click at (270,85) was delivered to the inner sub-frame 3-2, and then a
\* click at (20,20), outside every sub-frame, was issued as five native
\* events on view 2
C40_Witness ==
    /\ InputHandled
    /\ ~HitFound
    /\ handled.args[1].type = "click"
    /\ Len(sent) = 5
    /\ Len(history) >= 2
    /\ history[Len(history) - 1].channel = "send-input-event"
    /\ history[Len(history) - 1].args[1].type = "click"
    /\ history[Len(history) - 1].hit = {<<3, 2>>}
====
